---- MODULE Spec2Model ----
(***************************************************************************)
(* Daily points / penalty ledger and rollover engine of the task manager   *)
(* (backend/modules/penalties, backend/modules/points, backend/workflows,  *)
(* backend/scheduler).                                                     *)
(*                                                                         *)
(* Dates are day numbers 1..MaxDay; the custom day start is disabled, so   *)
(* get_day_range(d) is the calendar day d and a datetime is represented by *)
(* its day.  Float settings are kept as scaled integers (tenths or         *)
(* percent); an int(x * y) of the source is the floor of the exact product *)
(* wherever the double product truncates to it, and FloatShortfall gives   *)
(* the difference where it does not.                                       *)
(***************************************************************************)
EXTENDS Integers, Sequences, FiniteSets, TLC

\* ---------------------------------------------------------------- bounds
\* the last day of the calendar, and the last day of a run with rollovers
MaxDay == 5
RaceDays == 3
RollDays == 4

Dates == 1..MaxDay

\* ------------------------------------------- settings (models.py defaults)
idle_penalty == 30
missed_habit_penalty_base == 15
penalty_streak_reset_days == 2
points_per_task_base == 10
points_per_habit_base == 10
routine_points_fixed == 6
max_tasks_per_day == 10
\* progressive_penalty_factor 0.1 and progressive_penalty_max 1.5, in tenths
progressive_penalty_factor == 1
progressive_penalty_max == 15
\* completion_bonus_full 0.10, completion_bonus_good 0.05, in percent
completion_bonus_full == 10
completion_bonus_good == 5
\* incomplete_penalty_percent 0.5, in percent
incomplete_penalty_percent == 50
\* energy_mult_base 0.6, energy_mult_step 0.2, in tenths
energy_mult_base == 6
energy_mult_step == 2
\* ROUTINE_PENALTY_MULTIPLIER 0.5, in tenths
ROUTINE_PENALTY_MULTIPLIER == 5
\* FOCUS_PENALTY_MULTIPLIER 0.8 and TIME_QUALITY_THRESHOLD 0.5, in tenths
FOCUS_PENALTY_MULTIPLIER == 8
TIME_QUALITY_THRESHOLD == 5
\* TIME_RATIO_THRESHOLD_LOW 0.8, TIME_QUALITY_FACTOR_GOOD 0.9, TIME_QUALITY_FACTOR_BAD 0.7,
\* in tenths
TIME_RATIO_THRESHOLD_LOW == 8
TIME_QUALITY_FACTOR_GOOD == 9
TIME_QUALITY_FACTOR_BAD == 7
minutes_per_energy_unit == 20
min_work_time_seconds == 120
\* backward scans of the penalty service
StreakLookback == 30
CatchUpLookback == 14

Min(a, b) == IF a < b THEN a ELSE b
Max(a, b) == IF a > b THEN a ELSE b

\* ------------------------------------------------------------ PointHistory
NoRec == [exists |-> FALSE]
NoBreakdown == [present |-> FALSE]

\* details = None: no task_completions, no planned_tasks, no penalty_breakdown
NoDetails ==
    [task_completions |-> {}, planned_tasks |-> {}, penalty_breakdown |-> NoBreakdown]

\* PointHistory(date=d, cumulative_total=cum) with the column defaults
PointHistory(cum) ==
    [exists |-> TRUE,
     points_earned |-> 0, points_penalty |-> 0, points_bonus |-> 0,
     daily_total |-> 0, cumulative_total |-> cum,
     tasks_completed |-> 0, habits_completed |-> 0, tasks_planned |-> 0,
     completion_rate |-> <<0, 1>>,
     penalty_streak |-> 0,
     details |-> NoDetails]

\* PointHistoryRepository.get_by_date
get_by_date(h, d) == IF d \in Dates THEN h[d] ELSE NoRec

\* PointHistoryRepository.get_most_recent: latest record dated before d
get_most_recent(h, d) ==
    LET earlier == {e \in Dates : e < d /\ h[e].exists}
    IN  IF earlier = {} THEN NoRec
        ELSE h[CHOOSE e \in earlier : \A f \in earlier : f <= e]

\* cumulative_total of the most recent earlier record, 0 if none
previous_cumulative(h, d) ==
    LET prev == get_most_recent(h, d)
    IN  IF prev.exists THEN prev.cumulative_total ELSE 0

\* a finalized test that looks at the penalty only
breakdown_ignored(rec) == FALSE

\* PenaltyService._is_day_finalized
_is_day_finalized(rec) ==
    rec.exists /\ rec.details.penalty_breakdown.present

\* the idempotency test used by every finalize path
already_finalized(rec) ==
    rec.points_penalty > 0 \/ _is_day_finalized(rec)

\* ------------------------------------------------------------ date_utils
\* A date is a day number, day 0 being a Monday; a datetime is the number of
\* seconds since day 0, 00:00:00; a time of day is a number of seconds below
\* SecondsPerDay.  A string is a sequence of characters; None and the empty
\* string, which the code treats alike, are both << >>.
SecondsPerDay == 86400

date_of(dt) == dt \div SecondsPerDay

time_of(dt) == dt % SecondsPerDay

\* datetime.combine(date, time)
combine(d, t) == d * SecondsPerDay + t

\* timedelta(days=n)
timedelta(days) == days * SecondsPerDay

\* time(hour, minute) as a time of day
clock(hour, minute) == hour * 3600 + minute * 60

\* date.weekday(): Monday is 0
weekday(d) == d % 7

DigitChars == <<"0", "1", "2", "3", "4", "5", "6", "7", "8", "9">>

IsDigit(c) == \E i \in 1..10 : DigitChars[i] = c

DigitValue(c) == (CHOOSE i \in 1..10 : DigitChars[i] = c) - 1

AllDigits(s) == s # << >> /\ \A i \in 1..Len(s) : IsDigit(s[i])

RECURSIVE DecimalValue(_)
DecimalValue(s) ==
    IF s = << >> THEN 0
    ELSE 10 * DecimalValue(SubSeq(s, 1, Len(s) - 1)) + DigitValue(s[Len(s)])

\* what a call gives: a raised exception or a value
Raised(exception) == [ok |-> FALSE, exception |-> exception]

Ok(value) == [ok |-> TRUE, value |-> value]

\* int(s) for a string of digits, letters, ":", "+" and "-": an optional sign and
\* at least one digit, ValueError otherwise
int(s) ==
    IF AllDigits(s) THEN Ok(DecimalValue(s))
    ELSE IF s # << >> /\ s[1] \in {"+", "-"} /\ AllDigits(Tail(s))
    THEN Ok((IF s[1] = "-" THEN -1 ELSE 1) * DecimalValue(Tail(s)))
    ELSE Raised("ValueError")

\* str.replace(old, ""), old one character
replace(s, old) == SelectSeq(s, LAMBDA c : c # old)

\* str.zfill(width): zeros on the left, after a sign if there is one
RECURSIVE zfill(_, _)
zfill(s, width) ==
    IF Len(s) >= width THEN s
    ELSE IF s # << >> /\ s[1] \in {"+", "-"}
    THEN <<s[1]>> \o zfill(<<"0">> \o Tail(s), width - 1)
    ELSE zfill(<<"0">> \o s, width)

\* str.split(sep), sep one character
RECURSIVE split(_, _)
split(s, sep) ==
    IF \A i \in 1..Len(s) : s[i] # sep THEN <<s>>
    ELSE LET i == CHOOSE k \in 1..Len(s) : s[k] = sep /\ \A j \in 1..(k - 1) : s[j] # sep
         IN  <<SubSeq(s, 1, i - 1)>> \o split(SubSeq(s, i + 1, Len(s)), sep)

\* the default of day_start_time
DefaultDayStart == <<"0", "6", ":", "0", "0">>

\* parse_time: IndexError without a colon, ValueError from int
parse_time(time_str) ==
    LET parts == split(time_str, ":")
    IN  IF ~int(parts[1]).ok THEN Raised("ValueError")
        ELSE IF Len(parts) < 2 THEN Raised("IndexError")
        ELSE IF ~int(parts[2]).ok THEN Raised("ValueError")
        ELSE Ok(<<int(parts[1]).value, int(parts[2]).value>>)

\* a comparison that also counts the minute of the day start as the day before
EffectiveDateUpTo(now, hour, minute) ==
    IF ~hour.ok \/ ~minute.ok THEN date_of(now)
    ELSE IF (time_of(now) \div 3600) * 60 + (time_of(now) % 3600) \div 60
              <= hour.value * 60 + minute.value
    THEN date_of(now) - 1
    ELSE date_of(now)

\* get_effective_date at the wall-clock time now
EffectiveDate(now, hour, minute) ==
    IF ~hour.ok \/ ~minute.ok THEN date_of(now)
    ELSE IF (time_of(now) \div 3600) * 60 + (time_of(now) % 3600) \div 60
              < hour.value * 60 + minute.value
    THEN date_of(now) - 1
    ELSE date_of(now)

EffectiveDateAt(now, t_str) ==
    EffectiveDate(now, int(SubSeq(t_str, 1, 2)), int(SubSeq(t_str, 3, Len(t_str))))

get_effective_date(now, day_start_enabled, day_start_time) ==
    IF ~day_start_enabled THEN date_of(now)
    ELSE EffectiveDateAt(now,
             zfill(replace(IF day_start_time = << >> THEN DefaultDayStart
                           ELSE day_start_time, ":"), 4))

\* the range from midnight to the next midnight
MidnightRange(target_date) == <<combine(target_date, 0), combine(target_date + 1, 0)>>

\* get_day_range once the time is parsed: time(hour, minute) raises ValueError
\* outside 0..23 and 0..59
DayRangeFrom(target_date, parsed) ==
    IF ~parsed.ok THEN MidnightRange(target_date)
    ELSE IF parsed.value[1] \notin 0..23 \/ parsed.value[2] \notin 0..59
    THEN MidnightRange(target_date)
    ELSE <<combine(target_date, clock(parsed.value[1], parsed.value[2])),
           combine(target_date + 1, clock(parsed.value[1], parsed.value[2]))>>

\* get_day_range: <<day_start, day_end>>
get_day_range(target_date, day_start_enabled, day_start_time) ==
    IF ~day_start_enabled THEN MidnightRange(target_date)
    ELSE DayRangeFrom(target_date,
             parse_time(IF day_start_time = << >> THEN DefaultDayStart
                        ELSE day_start_time))

\* a JSON number without sign, fraction or exponent
IsJsonNumber(s) == AllDigits(s) /\ (Len(s) > 1 => s[1] # "0")

\* json.loads for a text of digits, letters, "[", "]" and ",": the list of the
\* numbers of a flat array, JSONDecodeError for every other text but a bare
\* number, which is not among the texts used here
json_loads(s) ==
    IF Len(s) < 2 \/ s[1] # "[" \/ s[Len(s)] # "]" THEN Raised("JSONDecodeError")
    ELSE IF Len(s) = 2 THEN Ok(<< >>)
    ELSE LET parts == split(SubSeq(s, 2, Len(s) - 1), ",")
         IN  IF \A i \in 1..Len(parts) : IsJsonNumber(parts[i])
             THEN Ok([i \in 1..Len(parts) |-> DecimalValue(parts[i])])
             ELSE Raised("JSONDecodeError")

\* the scan of _calculate_weekly_occurrence over the next WeeklyLookahead days
WeeklyLookahead == 14

\* the fallback of _calculate_weekly_occurrence: the next multiple of 7 days
WeeklyFallback(start_date, now) ==
    start_date + timedelta(((date_of(now) - date_of(start_date)) \div 7 + 1) * 7)

\* the offsets of the days that the scan accepts: the weekday is listed, and today
\* counts only while the time of the habit has not come
WeeklyMatches(start_date, now, days) ==
    {offset \in 0..(WeeklyLookahead - 1) :
        /\ \E i \in 1..Len(days) : days[i] = weekday(date_of(now) + offset)
        /\ ~(offset = 0 /\ now >= combine(date_of(now), time_of(start_date)))}

WeeklyScan(start_date, now, matches) ==
    IF matches = {} THEN start_date + timedelta(7)
    ELSE combine(date_of(now) + (CHOOSE m \in matches : \A k \in matches : m <= k),
                 time_of(start_date))

WeeklyParsed(start_date, now, days) ==
    IF ~days.ok THEN WeeklyFallback(start_date, now)
    ELSE IF days.value = << >> THEN WeeklyFallback(start_date, now)
    ELSE WeeklyScan(start_date, now, WeeklyMatches(start_date, now, days.value))

\* _calculate_weekly_occurrence
_calculate_weekly_occurrence(start_date, now, recurrence_days) ==
    WeeklyParsed(start_date, now,
                 IF recurrence_days = << >> THEN Ok(<< >>)
                 ELSE json_loads(recurrence_days))

\* _calculate_daily_occurrence
_calculate_daily_occurrence(start_date, now) ==
    LET current_date == start_date + timedelta(date_of(now) - date_of(start_date))
    IN  IF current_date < now THEN current_date + timedelta(1) ELSE current_date

\* _calculate_every_n_days_occurrence, interval >= 1
_calculate_every_n_days_occurrence(start_date, now, interval) ==
    start_date
      + timedelta((((date_of(now) - date_of(start_date)) \div interval) + 1) * interval)

\* calculate_next_occurrence at the wall-clock time now
calculate_next_occurrence(start_date, now, recurrence_type, recurrence_interval, recurrence_days) ==
    IF recurrence_type = "none" THEN start_date
    ELSE IF start_date >= now THEN start_date
    ELSE CASE recurrence_type = "daily" -> _calculate_daily_occurrence(start_date, now)
           [] recurrence_type = "every_n_days" ->
                  _calculate_every_n_days_occurrence(start_date, now, recurrence_interval)
           [] recurrence_type = "weekly" ->
                  _calculate_weekly_occurrence(start_date, now, recurrence_days)
           [] OTHER -> start_date

\* ------------------------------------------------------------------ Task
\* Task rows: regular tasks (is_habit FALSE) and habit occurrences.  due and
\* completed_on are day numbers, 0 when unset.
Task(id, is_habit, energy, due, habit_type, recurrence_type, streak, last_completed) ==
    [id |-> id, is_habit |-> is_habit, energy |-> energy,
     status |-> "pending", is_today |-> FALSE, completed_on |-> 0,
     due |-> due, habit_type |-> habit_type,
     recurrence_type |-> recurrence_type, recurrence_interval |-> 1,
     recurrence_days |-> << >>,
     streak |-> streak, last_completed_date |-> last_completed,
     priority |-> 5, depends_on |-> 0]

\* TaskRepository.create: SQLite assigns max(rowid) + 1
NewId(t) ==
    IF t = {} THEN 1
    ELSE 1 + (CHOOSE i \in {x.id : x \in t} : \A x \in t : x.id <= i)

\* TaskRepository.get_missed_habits for the day d
get_missed_habits(t, d) ==
    {x \in t : x.is_habit /\ x.due = d /\ x.status # "completed"}

\* TaskRepository.count_habits_due_in_range for the day d
count_habits_due(t, d) ==
    Cardinality({x \in t : x.is_habit /\ x.due = d})

\* TaskRepository.get_completed_count for the day d
get_completed_count(t, d, is_habit) ==
    Cardinality({x \in t : x.status = "completed" /\ x.completed_on = d
                           /\ x.is_habit = is_habit})

\* date_utils.calculate_next_due_date; 0 stands for None, and a
\* recurrence_interval of 0 or None counts as 1
calculate_next_due_date(recurrence_type, from_date, recurrence_interval, recurrence_days) ==
    CASE recurrence_type = "daily" -> from_date + 1
      [] recurrence_type = "every_n_days" -> from_date + Max(1, recurrence_interval)
      [] recurrence_type = "weekly" ->
             date_of(_calculate_weekly_occurrence(combine(from_date, 0),
                         combine(from_date, 0) + timedelta(1), recurrence_days))
      [] OTHER -> 0

\* TaskService._create_next_habit_occurrence
_create_next_habit_occurrence(t, habit, next_due) ==
    LET is_missed == habit.status # "completed"
    IN  t \cup {Task(NewId(t), TRUE, habit.energy, next_due, habit.habit_type,
                     habit.recurrence_type,
                     IF is_missed THEN 0 ELSE habit.streak,
                     habit.last_completed_date)}

\* TaskService.roll_forward_missed_habit(habit_data, from_date)
roll_forward_missed_habit(t, habit_id, from_date) ==
    LET found == {x \in t : x.id = habit_id}
    IN  IF found = {} THEN t
        ELSE LET habit == CHOOSE x \in found : TRUE
                 current_due == IF habit.due # 0 THEN habit.due ELSE from_date
                 next_due == calculate_next_due_date(habit.recurrence_type,
                                 current_due, habit.recurrence_interval,
                                 habit.recurrence_days)
             IN  IF ~habit.is_habit \/ habit.recurrence_type = "none" THEN t
                 ELSE (IF next_due # 0
                       THEN _create_next_habit_occurrence(t, habit, next_due)
                       ELSE t) \ {habit}

\* the missed habits of a day in id order (the order the query returns them)
RECURSIVE InIdOrder(_)
InIdOrder(S) ==
    IF S = {} THEN << >>
    ELSE LET first == CHOOSE x \in S : \A y \in S : x.id <= y.id
         IN  <<first>> \o InIdOrder(S \ {first})

\* roll_forward_missed_habit applied to each habit of the list in turn; the
\* result is the task table after each call (each call commits)
RECURSIVE RollForwardEach(_, _, _)
RollForwardEach(t, habits, from_date) ==
    IF habits = << >> THEN << >>
    ELSE LET t1 == roll_forward_missed_habit(t, Head(habits).id, from_date)
         IN  <<t1>> \o RollForwardEach(t1, Tail(habits), from_date)

\* per-habit penalty: base for a skill habit, int(base * 0.5) otherwise
habit_penalty(habit) ==
    IF habit.habit_type = "skill" THEN missed_habit_penalty_base
    ELSE (missed_habit_penalty_base * ROUTINE_PENALTY_MULTIPLIER) \div 10

RECURSIVE SumHabitPenalty(_)
SumHabitPenalty(S) ==
    IF S = {} THEN 0
    ELSE LET x == CHOOSE y \in S : TRUE
         IN  habit_penalty(x) + SumHabitPenalty(S \ {x})

\* PenaltyService._calculate_missed_habits_penalty: <<ids of the missed habits, penalty>>
_calculate_missed_habits_penalty(t, d) ==
    LET missed == get_missed_habits(t, d)
    IN  <<{x.id : x \in missed}, SumHabitPenalty(missed)>>

\* ------------------------------------------------- penalty calculation
\* PenaltyService._update_completion_counts: max() against the task table
_update_completion_counts(rec, t, d) ==
    [rec EXCEPT
       !.tasks_completed = Max(rec.tasks_completed, get_completed_count(t, d, FALSE)),
       !.habits_completed = Max(rec.habits_completed, get_completed_count(t, d, TRUE))]

\* PenaltyService._calculate_idle_penalty
_calculate_idle_penalty(rec) ==
    IF rec.tasks_completed = 0 /\ rec.habits_completed = 0 THEN idle_penalty ELSE 0

\* points_per_task_base * (energy_mult_base + energy * energy_mult_step), in tenths
potential_tenths(energy) ==
    points_per_task_base * (energy_mult_base + energy * energy_mult_step)

RECURSIVE SumPotential(_)
SumPotential(S) ==
    IF S = {} THEN 0
    ELSE LET x == CHOOSE y \in S : TRUE
         IN  potential_tenths(x.energy) + SumPotential(S \ {x})

\* PenaltyService._calculate_incomplete_penalty:
\* [penalty, missed_task_potential, incomplete_tasks (ids), rec (completion_rate set)]
_calculate_incomplete_penalty(rec) ==
    IF rec.tasks_planned = 0
    THEN [penalty |-> 0, missed_task_potential |-> 0, incomplete_tasks |-> {}, rec |-> rec]
    ELSE
      LET rated == [rec EXCEPT !.completion_rate =
                       <<Min(rec.tasks_completed, rec.tasks_planned), rec.tasks_planned>>]
          planned == rec.details.planned_tasks
          nothing == [penalty |-> 0, missed_task_potential |-> 0,
                      incomplete_tasks |-> {}, rec |-> rated]
      IN  IF planned = {}
          THEN \* fallback to the average task (energy 3)
               LET incomplete_count == rec.tasks_planned - rec.tasks_completed
                   potential == incomplete_count * potential_tenths(3)
               IN  IF incomplete_count <= 0 THEN nothing
                   ELSE [penalty |-> ((potential \div 10) * incomplete_penalty_percent) \div 100,
                         missed_task_potential |-> potential \div 10,
                         incomplete_tasks |-> {}, rec |-> rated]
          ELSE LET missed == {x \in planned : x.task_id \notin rec.details.task_completions}
                   potential == SumPotential(missed)
               IN  IF potential = 0 THEN nothing
                   ELSE [penalty |-> (potential * incomplete_penalty_percent) \div 1000,
                         missed_task_potential |-> potential \div 10,
                         incomplete_tasks |-> {x.task_id : x \in missed}, rec |-> rated]

\* PenaltyService._apply_consistency_bonus
_apply_consistency_bonus(rec) ==
    LET rate == rec.completion_rate
    IN  IF rec.points_earned <= 0 THEN rec
        ELSE IF rate[1] >= rate[2]
        THEN [rec EXCEPT !.points_bonus = (rec.points_earned * completion_bonus_full) \div 100]
        ELSE IF 5 * rate[1] >= 4 * rate[2]
        THEN [rec EXCEPT !.points_bonus = (rec.points_earned * completion_bonus_good) \div 100]
        ELSE rec

\* PenaltyService._get_effective_penalty_streak
RECURSIVE WalkBack(_, _, _, _)
WalkBack(h, current_date, streak, left) ==
    LET prev_history == get_by_date(h, current_date)
    IN  IF left = 0 \/ ~prev_history.exists THEN streak
        ELSE IF prev_history.penalty_streak > 0 THEN streak + prev_history.penalty_streak
        ELSE IF prev_history.points_penalty > 0
        THEN WalkBack(h, current_date - 1, streak + 1, left - 1)
        ELSE streak

_get_effective_penalty_streak(h, check_date) ==
    LET history == get_by_date(h, check_date)
    IN  IF ~history.exists THEN 0
        ELSE IF history.penalty_streak > 0 THEN history.penalty_streak
        ELSE IF history.points_penalty > 0
        THEN WalkBack(h, check_date - 1, 1, StreakLookback)
        ELSE 0

\* the multiplier that leaves the first penalized day unmultiplied
multiplier_from_second_day(streak) ==
    10 + Min((streak - 1) * progressive_penalty_factor, progressive_penalty_max - 10)

\* 1 + min(streak * progressive_penalty_factor, progressive_penalty_max - 1), in tenths
progressive_multiplier(streak) ==
    10 + Min(streak * progressive_penalty_factor, progressive_penalty_max - 10)

\* int(penalty * multiplier) in IEEE double arithmetic.  The doubles 1.1, 1.2, 1.3
\* and 1.5 give the floor of the exact product; the double nearest 1.4 lies below
\* 1.4, and for a penalty p that is a multiple of 5 with 1.25 * 2^k < p and
\* 1.4 * p < 2^(k+1) the rounded product stays below the integer 1.4 * p, so the
\* result is one less (int(45 * 1.4) = 62).
FloatShortfall(penalty, mult) ==
    IF mult = 14 /\ penalty % 5 = 0
       /\ \E k \in 0..20 : 5 * 2^k < 4 * penalty /\ 7 * penalty < 5 * 2^(k+1)
    THEN 1 ELSE 0

int_times_multiplier(penalty, mult) ==
    (penalty * mult) \div 10 - FloatShortfall(penalty, mult)

\* the streak a penalized date receives
next_penalty_streak(h, target_date) ==
    LET yesterday_streak == _get_effective_penalty_streak(h, target_date - 1)
    IN  IF yesterday_streak > 0 THEN yesterday_streak + 1 ELSE 1

\* consecutive records with points_penalty = 0 directly before target_date,
\* counted over at most reset_days days
RECURSIVE consecutive_clean(_, _, _)
consecutive_clean(h, check, left) ==
    LET prev == get_by_date(h, check - 1)
    IN  IF left = 0 \/ ~prev.exists \/ prev.points_penalty > 0 THEN 0
        ELSE 1 + consecutive_clean(h, check - 1, left - 1)

\* PenaltyService._apply_progressive_multiplier:
\* [penalty, multiplier, rec (penalty_streak set)]
_apply_progressive_multiplier(h, penalty, target_date, rec) ==
    IF penalty > 0
    THEN LET streak == next_penalty_streak(h, target_date)
             mult == progressive_multiplier(streak)
         IN  [penalty |-> int_times_multiplier(penalty, mult), multiplier |-> mult,
              rec |-> [rec EXCEPT !.penalty_streak = streak]]
    ELSE LET yesterday_history == get_by_date(h, target_date - 1)
             streak ==
                 IF consecutive_clean(h, target_date, penalty_streak_reset_days)
                        >= penalty_streak_reset_days
                 THEN 0
                 ELSE IF yesterday_history.exists THEN yesterday_history.penalty_streak
                 ELSE 0
         IN  [penalty |-> penalty, multiplier |-> 10,
              rec |-> [rec EXCEPT !.penalty_streak = streak]]

\* ------------------------------------------------------ ledger writes
\* A finalize call is described by its outcome
\*   [hist, tasks : the tables after the call,
\*    trace       : the tables as committed, one entry per db.commit() in order,
\*    ret         : the returned dictionary,
\*    clamp       : whether some max(0, ...) cut a total off at 0,
\*    log         : the dates whose penalties this call computed and applied]
Snapshot(h, t) == [hist |-> h, tasks |-> t]

Outcome(h, t, trace, ret, clamp, log) ==
    [hist |-> h, tasks |-> t, trace |-> trace, ret |-> ret, clamp |-> clamp, log |-> log]

Ret(penalty, completion_rate, tasks_completed, tasks_planned, missed_habits, kind) ==
    [penalty |-> penalty, completion_rate |-> completion_rate,
     tasks_completed |-> tasks_completed, tasks_planned |-> tasks_planned,
     missed_habits |-> missed_habits, kind |-> kind]

\* PenaltyService._rest_day_result
_rest_day_result == Ret(0, <<1, 1>>, 0, 0, 0, "is_rest_day")

\* PenaltyService._no_history_result
_no_history_result == Ret(0, <<0, 1>>, 0, 0, 0, "no_history")

\* the dictionary returned for a date that is already finalized
already_finalized_result(rec) ==
    Ret(rec.points_penalty, rec.completion_rate, rec.tasks_completed,
        rec.tasks_planned, 0, "already_finalized")

\* PointsService.propagate_cumulative_change: no clamp
propagate_cumulative_change(h, from_date, delta) ==
    [e \in Dates |->
        IF e > from_date /\ h[e].exists
        THEN [h[e] EXCEPT !.cumulative_total = h[e].cumulative_total + delta]
        ELSE h[e]]

\* PenaltyService._propagate_cumulative_change (one commit)
_propagate_cumulative_change(h, from_date, delta) ==
    [e \in Dates |->
        IF e > from_date /\ h[e].exists
        THEN [h[e] EXCEPT !.cumulative_total = Max(0, h[e].cumulative_total + delta)]
        ELSE h[e]]

PropagateClamps(h, from_date, delta) ==
    \E e \in Dates : e > from_date /\ h[e].exists /\ h[e].cumulative_total + delta < 0

\* PenaltyService._apply_final_penalties: rec carries the pending counter, rate,
\* bonus and streak changes; the first commit writes them with the penalty and the
\* totals, the second commit is the propagation
_apply_final_penalties(h, t, d, rec, penalty) ==
    LET net_change == rec.points_bonus - penalty
        old_cumulative == rec.cumulative_total
        applied == [rec EXCEPT
                      !.points_penalty = penalty,
                      !.daily_total = rec.points_earned + rec.points_bonus - penalty,
                      !.cumulative_total = Max(0, old_cumulative + net_change)]
        h1 == [h EXCEPT ![d] = applied]
        cumulative_delta == applied.cumulative_total - old_cumulative
        h2 == _propagate_cumulative_change(h1, d, cumulative_delta)
    IN  IF net_change # 0
        THEN [hist |-> h2, trace |-> <<Snapshot(h1, t), Snapshot(h2, t)>>,
              clamp |-> old_cumulative + net_change < 0
                        \/ PropagateClamps(h1, d, cumulative_delta)]
        ELSE [hist |-> h1, trace |-> <<Snapshot(h1, t)>>, clamp |-> FALSE]

\* the penalty_breakdown object
Breakdown(idle, incomplete, habits, multiplier, streak, total, missed_habits, incomplete_tasks, auto_finalized) ==
    [present |-> TRUE, idle_penalty |-> idle, incomplete_penalty |-> incomplete,
     missed_habits_penalty |-> habits, progressive_multiplier |-> multiplier,
     penalty_streak |-> streak, total_penalty |-> total,
     missed_habits |-> missed_habits, incomplete_tasks |-> incomplete_tasks,
     auto_finalized |-> auto_finalized]

\* PenaltyService._save_penalty_breakdown (one commit): the other sub-objects of
\* details are kept
_save_penalty_breakdown(h, d, idle, incomplete, habits, multiplier, total, missed_habits, incomplete_tasks) ==
    [h EXCEPT ![d].details.penalty_breakdown =
        Breakdown(idle, incomplete, habits, multiplier, h[d].penalty_streak, total,
                  missed_habits, incomplete_tasks, FALSE)]

\* ---------------------------------------------------- finalize paths
\* steps 1-4 on the record with its completion counts raised: the parts of the
\* raw penalty, and the record with completion_rate and points_bonus set
RawPenalties(counted, inc, missed) ==
    [idle |-> _calculate_idle_penalty(counted),
     incomplete |-> inc.penalty,
     incomplete_tasks |-> inc.incomplete_tasks,
     habits |-> missed[2],
     missed_habits |-> missed[1],
     raw |-> _calculate_idle_penalty(counted) + inc.penalty + missed[2],
     rec |-> _apply_consistency_bonus(inc.rec)]

CountedPenalties(counted, missed) ==
    RawPenalties(counted, _calculate_incomplete_penalty(counted), missed)

\* finalize_day_penalties counts the missed habits of the day (with_habits);
\* calculate_daily_penalties does not
ComputePenalties(rec, t, d, with_habits) ==
    CountedPenalties(_update_completion_counts(rec, t, d),
                     IF with_habits THEN _calculate_missed_habits_penalty(t, d)
                     ELSE <<{}, 0>>)

\* step 5: finalize_day_penalties always calls _apply_progressive_multiplier,
\* calculate_daily_penalties only when the penalty is > 0
Multiplied(h, d, p, with_habits) ==
    IF with_habits \/ p.raw > 0
    THEN _apply_progressive_multiplier(h, p.raw, d, p.rec)
    ELSE [penalty |-> p.raw, multiplier |-> 10, rec |-> p.rec]

\* the outcome once _save_penalty_breakdown has committed the ledger h3
Saved(t, d, p, prog, fin, h3) ==
    Outcome(h3, t, fin.trace \o <<Snapshot(h3, t)>>,
            Ret(prog.penalty, prog.rec.completion_rate, prog.rec.tasks_completed,
                prog.rec.tasks_planned, Cardinality(p.missed_habits), "finalized"),
            fin.clamp, <<d>>)

WithBreakdown(t, d, p, prog, fin) ==
    Saved(t, d, p, prog, fin,
          _save_penalty_breakdown(fin.hist, d, p.idle, p.incomplete, p.habits,
                                  prog.multiplier, prog.penalty, p.missed_habits,
                                  p.incomplete_tasks))

ApplyFinal(h, t, d, p, prog) ==
    WithBreakdown(t, d, p, prog,
                  _apply_final_penalties(h, t, d, prog.rec, prog.penalty))

FinalizeComputed(h, t, d, with_habits, p) ==
    ApplyFinal(h, t, d, p, Multiplied(h, d, p, with_habits))

\* the body of finalize_day_penalties and of calculate_daily_penalties for a
\* record that exists and is not finalized
FinalizeRecord(h, t, d, with_habits) ==
    FinalizeComputed(h, t, d, with_habits, ComputePenalties(h[d], t, d, with_habits))

LastTasks(rolls, t) == IF rolls = << >> THEN t ELSE rolls[Len(rolls)]

\* the penalty of a day finalized without its completion data: idle penalty plus
\* missed habits, times the progressive multiplier
AutoPenaltyOf(missed_habits, streak) ==
    [missed_habits |-> {x.id : x \in missed_habits},
     habits_penalty |-> SumHabitPenalty(missed_habits),
     penalty_streak |-> streak,
     multiplier |-> progressive_multiplier(streak),
     total_penalty |-> int_times_multiplier(idle_penalty + SumHabitPenalty(missed_habits),
                                            progressive_multiplier(streak))]

AutoPenalty(h1, t, d) ==
    AutoPenaltyOf(get_missed_habits(t, d), next_penalty_streak(h1, d))

AutoBreakdown(p) ==
    Breakdown(idle_penalty, 0, p.habits_penalty, p.multiplier, p.penalty_streak,
              p.total_penalty, p.missed_habits, {}, TRUE)

\* the commits of such a day: the created record, one per habit rolled forward,
\* the penalty with its breakdown, the propagation
AutoTrace(created, h1, h2, h3, propagated, t, rolls) ==
    (IF created THEN <<Snapshot(h1, t)>> ELSE << >>)
      \o [i \in 1..Len(rolls) |-> Snapshot(h1, rolls[i])]
      \o <<Snapshot(h2, LastTasks(rolls, t))>>
      \o (IF propagated THEN <<Snapshot(h3, LastTasks(rolls, t))>> ELSE << >>)

\* _handle_no_history after the penalty update: propagation if the total moved
NoHistoryPropagate(h1, h2, h3, t, d, rolls, p, prev_cum) ==
    Outcome(IF h2[d].cumulative_total # prev_cum THEN h3 ELSE h2,
            LastTasks(rolls, t),
            AutoTrace(TRUE, h1, h2, h3, h2[d].cumulative_total # prev_cum, t, rolls),
            Ret(p.total_penalty, <<0, 1>>, 0, 0, Cardinality(p.missed_habits),
                "auto_finalized"),
            prev_cum - p.total_penalty < 0
              \/ PropagateClamps(h2, d, h2[d].cumulative_total - prev_cum),
            <<d>>)

NoHistoryUpdated(h1, h2, t, d, rolls, p, prev_cum) ==
    NoHistoryPropagate(h1, h2,
        _propagate_cumulative_change(h2, d, h2[d].cumulative_total - prev_cum),
        t, d, rolls, p, prev_cum)

\* _handle_no_history after the record is created: the penalty, the roll-forward
\* of each missed habit, the update with the breakdown
NoHistoryPenalized(h1, t, d, p, prev_cum) ==
    NoHistoryUpdated(h1,
        [h1 EXCEPT ![d] = [PointHistory(prev_cum) EXCEPT
            !.penalty_streak = p.penalty_streak,
            !.points_penalty = p.total_penalty,
            !.daily_total = 0 - p.total_penalty,
            !.cumulative_total = Max(0, prev_cum - p.total_penalty),
            !.details = [NoDetails EXCEPT !.penalty_breakdown = AutoBreakdown(p)]]],
        t, d, RollForwardEach(t, InIdOrder(get_missed_habits(t, d)), d), p, prev_cum)

NoHistoryCreated(h1, t, d, prev_cum) ==
    NoHistoryPenalized(h1, t, d, AutoPenalty(h1, t, d), prev_cum)

\* PenaltyService._handle_no_history
_handle_no_history(h, t, d) ==
    IF count_habits_due(t, d) = 0
    THEN Outcome(h, t, << >>, _no_history_result, FALSE, << >>)
    ELSE NoHistoryCreated([h EXCEPT ![d] = PointHistory(previous_cumulative(h, d))],
                          t, d, previous_cumulative(h, d))

\* no date is taken for a rest day
never_rest_day(rest, target_date) == FALSE

\* RestDayService.is_rest_day, the is_rest_day_fn of the penalty calls: the
\* rest_days table holds a row of that date
is_rest_day_fn(rest, target_date) == target_date \in rest

\* PenaltyService.finalize_day_penalties
finalize_day_penalties(h, t, target_date, is_rest_day) ==
    IF is_rest_day THEN Outcome(h, t, << >>, _rest_day_result, FALSE, << >>)
    ELSE IF ~h[target_date].exists THEN _handle_no_history(h, t, target_date)
    ELSE IF already_finalized(h[target_date])
    THEN Outcome(h, t, << >>, already_finalized_result(h[target_date]), FALSE, << >>)
    ELSE FinalizeRecord(h, t, target_date, TRUE)

\* PenaltyService._finalize_missing_days, the backward scan: the oldest
\* unfinalized day, 0 for None
RECURSIVE ScanOldest(_, _, _, _, _, _)
ScanOldest(h, t, check_date, left, oldest_unfinalized, last_roll) ==
    IF left = 0 THEN oldest_unfinalized
    ELSE IF get_by_date(h, check_date).exists
    THEN IF already_finalized(get_by_date(h, check_date)) THEN oldest_unfinalized
         ELSE ScanOldest(h, t, check_date - 1, left - 1, check_date, last_roll)
    ELSE IF count_habits_due(t, check_date) > 0
    THEN ScanOldest(h, t, check_date - 1, left - 1, check_date, last_roll)
    ELSE IF last_roll # 0 /\ check_date < last_roll THEN oldest_unfinalized
    ELSE ScanOldest(h, t, check_date - 1, left - 1, oldest_unfinalized, last_roll)

\* one processed day of the forward loop, after the penalty update: the
\* propagation runs whenever total_penalty > 0
CatchUpPropagate(o, created, h1, h2, h3, d, rolls, p, old_cumulative) ==
    Outcome(IF p.total_penalty > 0 THEN h3 ELSE h2,
            LastTasks(rolls, o.tasks),
            o.trace \o AutoTrace(created, h1, h2, h3, p.total_penalty > 0, o.tasks, rolls),
            o.ret,
            o.clamp \/ old_cumulative - p.total_penalty < 0
              \/ PropagateClamps(h2, d, h2[d].cumulative_total - old_cumulative),
            Append(o.log, d))

CatchUpUpdated(o, created, h1, h2, d, rolls, p, old_cumulative) ==
    CatchUpPropagate(o, created, h1, h2,
        _propagate_cumulative_change(h2, d, h2[d].cumulative_total - old_cumulative),
        d, rolls, p, old_cumulative)

\* the penalty is written over the existing or the created record: daily_total is
\* -total_penalty and details holds the breakdown only
CatchUpPenalized(o, created, h1, d, p) ==
    CatchUpUpdated(o, created, h1,
        [h1 EXCEPT ![d] = [h1[d] EXCEPT
            !.penalty_streak = p.penalty_streak,
            !.points_penalty = p.total_penalty,
            !.daily_total = 0 - p.total_penalty,
            !.cumulative_total = Max(0, h1[d].cumulative_total - p.total_penalty),
            !.details = [NoDetails EXCEPT !.penalty_breakdown = AutoBreakdown(p)]]],
        d, RollForwardEach(o.tasks, InIdOrder(get_missed_habits(o.tasks, d)), d), p,
        h1[d].cumulative_total)

CatchUpCreated(o, created, h1, d) ==
    CatchUpPenalized(o, created, h1, d, AutoPenalty(h1, o.tasks, d))

\* PenaltyService._finalize_missing_days, one processed day of the forward loop
CatchUpDay(o, d) ==
    CatchUpCreated(o, ~o.hist[d].exists,
        IF o.hist[d].exists THEN o.hist
        ELSE [o.hist EXCEPT ![d] = PointHistory(previous_cumulative(o.hist, d))],
        d)

\* PenaltyService._finalize_missing_days, the forward loop from current_date
RECURSIVE CatchUpFrom(_, _, _, _)
CatchUpFrom(o, current_date, yesterday, rest) ==
    IF current_date >= yesterday THEN o
    ELSE IF is_rest_day_fn(rest, current_date)
            \/ (get_by_date(o.hist, current_date).exists
                /\ already_finalized(get_by_date(o.hist, current_date)))
            \/ (count_habits_due(o.tasks, current_date) = 0
                /\ ~get_by_date(o.hist, current_date).exists)
    THEN CatchUpFrom(o, current_date + 1, yesterday, rest)
    ELSE CatchUpFrom(CatchUpDay(o, current_date), current_date + 1, yesterday, rest)

CatchUpSince(nothing, oldest_unfinalized, yesterday, rest) ==
    IF oldest_unfinalized = 0 \/ oldest_unfinalized = yesterday THEN nothing
    ELSE CatchUpFrom(nothing, oldest_unfinalized, yesterday, rest)

\* PenaltyService._finalize_missing_days
_finalize_missing_days(h, t, effective_today, rest, last_roll) ==
    CatchUpSince(Outcome(h, t, << >>, _no_history_result, FALSE, << >>),
                 ScanOldest(h, t, effective_today - 1, CatchUpLookback, 0, last_roll),
                 effective_today - 1, rest)

Joined(caught, last) ==
    Outcome(last.hist, last.tasks, caught.trace \o last.trace, last.ret,
            caught.clamp \/ last.clamp, caught.log \o last.log)

\* calculate_daily_penalties after the catch-up: yesterday
FinalizeYesterday(caught, yesterday, rest) ==
    IF is_rest_day_fn(rest, yesterday) THEN [caught EXCEPT !.ret = _rest_day_result]
    ELSE IF ~get_by_date(caught.hist, yesterday).exists
    THEN [caught EXCEPT !.ret = _no_history_result]
    ELSE IF already_finalized(caught.hist[yesterday])
    THEN [caught EXCEPT !.ret = already_finalized_result(caught.hist[yesterday])]
    ELSE Joined(caught, FinalizeRecord(caught.hist, caught.tasks, yesterday, FALSE))

\* PenaltyService.calculate_daily_penalties
calculate_daily_penalties(h, t, effective_today, rest, last_roll) ==
    FinalizeYesterday(_finalize_missing_days(h, t, effective_today, rest, last_roll),
                      effective_today - 1, rest)

\* ------------------------------------------------------ PointsService
\* a time quality that looks at the ratio only
time_quality_by_ratio(actual_time, energy) ==
    LET expected_time == energy * minutes_per_energy_unit * 60
    IN  IF expected_time = 0 THEN 10
        ELSE IF 2 * actual_time < expected_time THEN TIME_RATIO_THRESHOLD_LOW
        ELSE IF 2 * actual_time <= 3 * expected_time THEN 10
        ELSE IF actual_time <= 3 * expected_time THEN TIME_QUALITY_FACTOR_GOOD
        ELSE TIME_QUALITY_FACTOR_BAD

\* PointsService._calculate_time_quality_factor, in tenths; the ratio tests are
\* actual / expected < 0.5, <= 1.5, <= 3.0 cleared of the division
_calculate_time_quality_factor(actual_time, energy) ==
    LET expected_time == energy * minutes_per_energy_unit * 60
    IN  IF actual_time < min_work_time_seconds THEN TIME_QUALITY_THRESHOLD
        ELSE IF expected_time = 0 THEN 10
        ELSE IF 2 * actual_time < expected_time THEN TIME_RATIO_THRESHOLD_LOW
        ELSE IF 2 * actual_time <= 3 * expected_time THEN 10
        ELSE IF actual_time <= 3 * expected_time THEN TIME_QUALITY_FACTOR_GOOD
        ELSE TIME_QUALITY_FACTOR_BAD

\* PointsService.calculate_task_points: max(1, int(base * energy_multiplier *
\* time_quality_factor * focus_factor))
calculate_task_points(energy, time_spent, started_at) ==
    LET energy_multiplier == energy_mult_base + energy * energy_mult_step
        time_quality_factor == _calculate_time_quality_factor(time_spent, energy)
        focus_factor == IF started_at THEN 10 ELSE FOCUS_PENALTY_MULTIPLIER
    IN  Max(1, (points_per_task_base * energy_multiplier * time_quality_factor
                  * focus_factor) \div 1000)

\* int(log2(streak + 1) * streak_log_factor * base): the largest k with
\* 1.5 * log2(streak + 1) >= k, i.e. (streak + 1)^3 >= 4^k
StreakBonus(streak) ==
    CHOOSE k \in 0..10 : (streak + 1)^3 >= 4^k /\ (streak + 1)^3 < 4^(k + 1)

\* PointsService.calculate_habit_points
calculate_habit_points(habit_type, streak) ==
    IF habit_type # "skill" THEN routine_points_fixed
    ELSE Max(1, points_per_habit_base + StreakBonus(streak))

\* PointsService.get_or_create_today_history: the ledger with today's record
get_or_create_today_history(h, d) ==
    IF h[d].exists THEN h
    ELSE [h EXCEPT ![d] = PointHistory(previous_cumulative(h, d))]

\* PointsService.add_task_completion_points
add_task_completion_points(h, d, task_id, is_habit, points) ==
    LET h1 == get_or_create_today_history(h, d)
        history == h1[d]
    IN  [h1 EXCEPT ![d] = [history EXCEPT
            !.tasks_completed = IF is_habit THEN @ ELSE @ + 1,
            !.habits_completed = IF is_habit THEN @ + 1 ELSE @,
            !.points_earned = @ + points,
            !.daily_total = history.points_earned + points + history.points_bonus
                              - history.points_penalty,
            !.cumulative_total = @ + points,
            !.details.task_completions = @ \cup {task_id}]]

\* PointsService.save_planned_tasks
save_planned_tasks(h, d, tasks_planned, task_details) ==
    LET h1 == get_or_create_today_history(h, d)
    IN  [h1 EXCEPT ![d].tasks_planned = tasks_planned,
                   ![d].details.planned_tasks = task_details]

\* -------------------------------------------------------- TaskService
\* TaskService._update_habit_streak: the new streak
_update_habit_streak(habit, d) ==
    LET expected_diff ==
            IF habit.recurrence_type = "every_n_days"
            THEN Max(1, habit.recurrence_interval)
            ELSE IF habit.recurrence_type = "weekly" THEN 8 ELSE 1
    IN  IF habit.last_completed_date = 0 THEN 1
        ELSE IF d - habit.last_completed_date <= expected_diff THEN habit.streak + 1
        ELSE 1

\* TaskService.complete: <<task table, the completed row as returned>>.  A task
\* that is already completed is returned unchanged with fully_completed = True.
complete(t, task, d) ==
    IF task.status = "completed" THEN <<t, task>>
    ELSE
      LET recurring == task.is_habit /\ task.recurrence_type # "none"
          done == [task EXCEPT
                     !.status = "completed",
                     !.completed_on = d,
                     !.streak = IF recurring THEN _update_habit_streak(task, d) ELSE @,
                     !.last_completed_date = IF recurring THEN d ELSE @]
          habit_due == IF task.due # 0 THEN task.due ELSE d
          next_due == calculate_next_due_date(task.recurrence_type, habit_due,
                                              task.recurrence_interval,
                                              task.recurrence_days)
          t1 == (t \ {task}) \cup {done}
      IN  <<IF recurring /\ next_due # 0
            THEN _create_next_habit_occurrence(t1, done, next_due)
            ELSE t1,
            done>>

\* TaskService._delete_overdue_habits over the overdue habits in list order
RECURSIVE DeleteEach(_, _)
DeleteEach(t, habits) ==
    IF habits = << >> THEN t
    ELSE LET habit == Head(habits)
             next_due == calculate_next_due_date(habit.recurrence_type, habit.due,
                                                 habit.recurrence_interval,
                                                 habit.recurrence_days)
             t1 == IF habit.recurrence_type # "none" /\ next_due # 0
                   THEN _create_next_habit_occurrence(t, habit, next_due)
                   ELSE t
         IN  DeleteEach(t1 \ {habit}, Tail(habits))

\* TaskRepository.get_overdue_habits + TaskService._delete_overdue_habits
_delete_overdue_habits(t, d) ==
    DeleteEach(t, InIdOrder({x \in t : x.is_habit /\ x.status = "pending" /\ x.due < d}))

\* TaskRepository.clear_today_flag
clear_today_flag(t) ==
    {IF x.is_habit THEN x ELSE [x EXCEPT !.is_today = FALSE] : x \in t}

\* TaskService._schedule_weighted_tasks: the tasks that can be drawn (mood filter
\* applied) and the number of slots; the weighted draw picks any set of that size
get_available_tasks(t) ==
    {x \in t : x.status = "pending" /\ ~x.is_habit /\ ~x.is_today}

\* step 2: the mood filter applies when the mood is a string of digits worth 0..5
mood_filter(available_tasks, mood) ==
    IF AllDigits(mood) /\ DecimalValue(mood) \in 0..5
    THEN {x \in available_tasks : x.energy <= DecimalValue(mood)}
    ELSE available_tasks

\* every dependency counts as met
dependencies_ignored(t, task) == TRUE

\* TaskService._check_dependencies_met; depends_on 0 stands for None
_check_dependencies_met(t, task) ==
    \/ task.depends_on = 0
    \/ \A x \in t : x.id # task.depends_on
    \/ \E x \in t : x.id = task.depends_on /\ x.status = "completed"

\* step 3
ready_tasks(t, mood) ==
    {x \in mood_filter(get_available_tasks(t), mood) : _check_dependencies_met(t, x)}

\* Task.calculate_urgency at the time now: priority, due date and energy parts
calculate_urgency(task, now) ==
    LET days_until == date_of(combine(task.due, 0) - now + timedelta(MaxDay + 1))
                        - (MaxDay + 1)
    IN  task.priority * 10
          + (IF task.due = 0 THEN 0
             ELSE IF days_until <= 0 THEN 100
             ELSE IF days_until <= 2 THEN 75
             ELSE IF days_until <= 7 THEN 30
             ELSE 0)
          + (IF task.energy >= 4 THEN 5 ELSE IF task.energy <= 1 THEN -5 ELSE 0)

\* step 5: the weights, shifted so that the smallest is 1 if an urgency is negative
weight(ready, task, now) ==
    LET min_urgency ==
            CHOOSE u \in {calculate_urgency(x, now) : x \in ready} :
                \A x \in ready : u <= calculate_urgency(x, now)
    IN  IF min_urgency < 0 THEN calculate_urgency(task, now) - min_urgency + 1
        ELSE calculate_urgency(task, now) + 1

slots(ready, daily_limit) == Min(daily_limit, Cardinality(ready))

\* step 6: the lists selected_tasks that n draws can give; random.choices returns
\* an element of positive weight, the element drawn is popped from the pool, and
\* range(n) is empty for n <= 0
RECURSIVE Draws(_, _, _, _)
Draws(available_pool, ready, now, n) ==
    IF n <= 0 \/ available_pool = {} THEN {<< >>}
    ELSE UNION {{<<x>> \o rest : rest \in Draws(available_pool \ {x}, ready, now, n - 1)} :
                   x \in {y \in available_pool : weight(ready, y, now) > 0}}

\* the tasks of the list selected_tasks
Selected(selected_tasks) == {selected_tasks[i] : i \in 1..Len(selected_tasks)}

\* the sets of tasks that step 7 can mark
Selections(ready, daily_limit, now) ==
    {Selected(selected_tasks) :
        selected_tasks \in Draws(ready, ready, now, slots(ready, daily_limit))}

mark_today(t, selected) ==
    {IF x \in selected THEN [x EXCEPT !.is_today = TRUE] ELSE x : x \in t}

\* TaskRepository.get_today_tasks
get_today_tasks(t) ==
    {x \in t : x.status = "pending" /\ ~x.is_habit /\ x.is_today}

\* TaskService.get_today_task_details
get_today_task_details(t) ==
    {[task_id |-> x.id, energy |-> x.energy] : x \in get_today_tasks(t)}

\* ---------------------------------------------------------------- state
VARIABLES
    today,           \* the effective date
    hist,            \* point_history: date -> record or NoRec
    tasks,           \* the tasks table
    rest_days,       \* the rest_days table
    last_roll_date,  \* settings.last_roll_date, 0 for None
    pending_roll,    \* settings.pending_roll
    clamped,         \* history: some total has been cut off at 0
    fin_log,         \* history: the dates finalized so far, in the order it happened
    rolling,         \* rollover attempts in flight: attempt -> the day it passed
                     \* can_roll for, 0 when it is not in flight
    completing,      \* the completion in flight between its read and its commit
    finalizing,      \* the finalize call in flight between its read and its commit
    call             \* the last call of a date_utils function, with its result

\* the requests in flight
requests == <<rolling, completing, finalizing>>

vars ==
    <<today, hist, tasks, rest_days, last_roll_date, pending_roll, clamped, fin_log,
      rolling, completing, finalizing, call>>

\* the two callers of RollDayWorkflow.execute: the /roll route and the timeout
\* branch of run_auto_roll
Attempts == {"user", "scheduler"}

\* no request in flight, no call made
NoRequest == [active |-> FALSE]

NoCall == [fn |-> "none"]

\* one regular task of energy 5 and one daily skill habit due on day 1
InitTasks ==
    {Task(1, FALSE, 5, 0, "skill", "none", 0, 0),
     Task(2, TRUE, 1, 1, "skill", "daily", 0, 0)}

RestDayChoices == {{}, {2}}

\* mood values offered to the roll: 0 filters every task of InitTasks out, 5 none
Moods == {<<"0">>, <<"5">>}

\* how a completed task was worked on: started, with the expected time spent
Work == {[started_at |-> TRUE, time_spent |-> 6000]}

InitWith(rest_day_choices) ==
    /\ today = 1
    /\ hist = [d \in Dates |-> NoRec]
    /\ tasks = InitTasks
    /\ rest_days \in rest_day_choices
    /\ last_roll_date = 0
    /\ pending_roll = FALSE
    /\ clamped = FALSE
    /\ fin_log = << >>
    /\ rolling = [a \in Attempts |-> 0]
    /\ completing = NoRequest
    /\ finalizing = NoRequest
    /\ call = NoCall

Init == InitWith(RestDayChoices)

InitNoRestDays == InitWith({{}})

\* the clock passes midnight, up to the day last_day
NextDay(last_day) ==
    /\ today < last_day
    /\ today' = today + 1
    /\ UNCHANGED <<hist, tasks, rest_days, last_roll_date, pending_roll, clamped, fin_log, requests, call>>

\* CompleteTaskWorkflow.execute(task_id), task_id ranging over the pending
\* tasks and the pending habits that are due
CompleteTaskWorkflow_execute(task, work) ==
    /\ task.status = "pending"
    /\ task.is_habit => task.due <= today
    /\ LET result == complete(tasks, task, today)
           done == result[2]
           points == IF done.is_habit
                     THEN calculate_habit_points(done.habit_type, done.streak)
                     ELSE calculate_task_points(done.energy, work.time_spent,
                                                work.started_at)
       IN  /\ tasks' = result[1]
           /\ hist' = add_task_completion_points(hist, today, done.id, done.is_habit,
                                                 points)
    /\ UNCHANGED <<today, rest_days, last_roll_date, pending_roll, clamped, fin_log, requests, call>>

\* the ledger and task writes of a penalty call
ApplyOutcome(o) ==
    /\ hist' = o.hist
    /\ tasks' = o.tasks
    /\ clamped' = (clamped \/ o.clamp)
    /\ fin_log' = fin_log \o o.log

\* a roll is always available
always_can_roll == TRUE

\* TaskService.can_roll (roll_available_time 00:00)
can_roll == last_roll_date # today

\* the times at which a roll runs: midnight and half past noon of today
RollTimes == {combine(today, 0), combine(today, clock(12, 30))}

\* RollDayWorkflow.execute steps 3 and 4: today's record, with the planned tasks
\* if any task was selected
Planned(o, rolled) ==
    [o EXCEPT
       !.tasks = rolled,
       !.hist = IF get_today_tasks(rolled) # {}
                THEN save_planned_tasks(get_or_create_today_history(o.hist, today),
                         today, Cardinality(get_today_tasks(rolled)),
                         get_today_task_details(rolled))
                ELSE get_or_create_today_history(o.hist, today)]

\* TaskService.roll_tasks on the table cleared of overdue habits and today flags:
\* the weighted draw fills the slots with any of the ready tasks
Rolled(o, cleared, mood) ==
    \E selected \in UNION {Selections(ready_tasks(cleared, mood), max_tasks_per_day, now) :
                               now \in RollTimes} :
        ApplyOutcome(Planned(o, mark_today(cleared, selected)))

AfterPenalties(o, mood) ==
    Rolled(o, clear_today_flag(_delete_overdue_habits(o.tasks, today)), mood)

\* RollDayWorkflow.execute(mood) past the can_roll check: penalties, roll_tasks,
\* today's record, last_roll_date
ExecuteRoll(mood) ==
    /\ AfterPenalties(calculate_daily_penalties(hist, tasks, today, rest_days,
                                                last_roll_date), mood)
    /\ last_roll_date' = today

\* RollDayWorkflow.execute(mood): without can_roll it returns the error response
\* and writes nothing
RollDayWorkflow_execute(mood) ==
    IF can_roll
    THEN /\ ExecuteRoll(mood)
         /\ UNCHANGED <<today, rest_days, pending_roll, requests, call>>
    ELSE UNCHANGED vars

\* RollDayWorkflow.complete_roll(mood)
complete_roll(mood) ==
    /\ pending_roll
    /\ can_roll
    /\ ExecuteRoll(mood)
    /\ pending_roll' = FALSE
    /\ UNCHANGED <<today, rest_days, requests, call>>

\* scheduler run_auto_roll, first branch: a pending flag left over from a roll
\* already done today is cleared
run_auto_roll_stuck ==
    /\ pending_roll /\ last_roll_date = today
    /\ pending_roll' = FALSE
    /\ UNCHANGED <<today, hist, tasks, rest_days, last_roll_date, clamped, fin_log, requests, call>>

\* second branch: the mood timeout has passed, the roll runs with mood 5
run_auto_roll_timeout ==
    /\ pending_roll /\ last_roll_date # today
    /\ ExecuteRoll(<<"5">>)
    /\ pending_roll' = FALSE
    /\ UNCHANGED <<today, rest_days, requests, call>>

\* third branch: morning preparation, penalties only, then pending_roll is set
run_auto_roll_prepare ==
    /\ ~pending_roll /\ last_roll_date # today
    /\ ApplyOutcome(calculate_daily_penalties(hist, tasks, today, rest_days,
                                              last_roll_date))
    /\ pending_roll' = TRUE
    /\ UNCHANGED <<today, rest_days, last_roll_date, requests, call>>

\* scheduler run_auto_penalties
run_auto_penalties ==
    LET yesterday_history == get_by_date(hist, today - 1)
    IN  /\ yesterday_history.exists
        /\ ~(yesterday_history.completion_rate[1] > 0
             \/ yesterday_history.points_penalty > 0)
        /\ ApplyOutcome(calculate_daily_penalties(hist, tasks, today, rest_days,
                                                  last_roll_date))
        /\ UNCHANGED <<today, rest_days, last_roll_date, pending_roll, requests, call>>

\* PenaltyService.finalize_day_penalties(target_date) for a past date
FinalizeDay(d) ==
    /\ d < today
    /\ ApplyOutcome(finalize_day_penalties(hist, tasks, d, is_rest_day_fn(rest_days, d)))
    /\ UNCHANGED <<today, rest_days, last_roll_date, pending_roll, requests, call>>

\* PointHistoryRepository.update in a session that loaded the row as `loaded` and
\* changed it to `updated`: the commit writes the changed columns over the row as
\* it is in the database
Flush(row, loaded, updated) ==
    [column \in DOMAIN row |->
        IF updated[column] # loaded[column] THEN updated[column] ELSE row[column]]

\* CompleteTaskWorkflow.execute up to the read of today's record in
\* add_task_completion_points: the task is completed and committed, the points
\* are calculated, the record is created if it is missing and loaded
CompleteTaskWorkflow_read(task, work) ==
    /\ ~completing.active
    /\ task.status = "pending"
    /\ task.is_habit => task.due <= today
    /\ LET result == complete(tasks, task, today)
           done == result[2]
           points == IF done.is_habit
                     THEN calculate_habit_points(done.habit_type, done.streak)
                     ELSE calculate_task_points(done.energy, work.time_spent,
                                                work.started_at)
           h1 == get_or_create_today_history(hist, today)
       IN  /\ tasks' = result[1]
           /\ hist' = h1
           /\ completing' = [active |-> TRUE, date |-> today, history |-> h1[today],
                             task_id |-> done.id, is_habit |-> done.is_habit,
                             points |-> points]
    /\ UNCHANGED <<today, rest_days, last_roll_date, pending_roll, clamped, fin_log,
                   rolling, finalizing, call>>

\* the rest of add_task_completion_points: the counters, points and totals are
\* raised on the loaded record and committed
CompleteTaskWorkflow_commit ==
    /\ completing.active
    /\ LET d == completing.date
           loaded == completing.history
           updated == add_task_completion_points([hist EXCEPT ![d] = loaded], d,
                          completing.task_id, completing.is_habit, completing.points)[d]
       IN  hist' = [hist EXCEPT ![d] = Flush(hist[d], loaded, updated)]
    /\ completing' = NoRequest
    /\ UNCHANGED <<today, tasks, rest_days, last_roll_date, pending_roll, clamped,
                   fin_log, rolling, finalizing, call>>

\* finalize_day_penalties(target_date) up to the read of the date's record, for
\* a record that exists and is not finalized
finalize_day_penalties_read(d) ==
    /\ ~finalizing.active
    /\ d < today
    /\ ~is_rest_day_fn(rest_days, d)
    /\ hist[d].exists /\ ~already_finalized(hist[d])
    /\ finalizing' = [active |-> TRUE, date |-> d, history |-> hist[d]]
    /\ UNCHANGED <<today, hist, tasks, rest_days, last_roll_date, pending_roll, clamped,
                   fin_log, rolling, completing, call>>

\* the three commits of the rest of finalize_day_penalties.  The penalties are
\* computed on the loaded record; _apply_final_penalties commits the changed
\* columns and refreshes the record, the propagation uses the refreshed total,
\* and _save_penalty_breakdown adds the breakdown to the refreshed details.
FinalizeCommitted(d, loaded, o, flushed) ==
    LET h1 == [hist EXCEPT ![d] = flushed]
        h2 == IF o.hist[d].points_bonus - o.hist[d].points_penalty # 0
              THEN _propagate_cumulative_change(h1, d,
                       flushed.cumulative_total - loaded.cumulative_total)
              ELSE h1
    IN  [h2 EXCEPT ![d].details.penalty_breakdown =
            [o.hist[d].details.penalty_breakdown EXCEPT
                !.penalty_streak = flushed.penalty_streak]]

finalize_day_penalties_commit ==
    /\ finalizing.active
    /\ LET d == finalizing.date
           loaded == finalizing.history
           o == FinalizeRecord([hist EXCEPT ![d] = loaded], tasks, d, TRUE)
       IN  /\ hist' = FinalizeCommitted(d, loaded, o,
                          Flush(hist[d], loaded,
                                [o.hist[d] EXCEPT !.details = loaded.details]))
           /\ tasks' = o.tasks
           /\ clamped' = (clamped \/ o.clamp)
           /\ fin_log' = Append(fin_log, d)
    /\ finalizing' = NoRequest
    /\ UNCHANGED <<today, rest_days, last_roll_date, pending_roll, rolling, completing,
                   call>>

\* a caller of RollDayWorkflow.execute up to the can_roll test, which it passes:
\* the /roll route, or run_auto_roll in its timeout branch, taken when pending_roll
\* is set and the roll of today is not done. The attempt remembers the effective
\* day it was made for.
RollAttempt_can_roll(a) ==
    /\ rolling[a] = 0
    /\ can_roll
    /\ a = "scheduler" => pending_roll
    /\ rolling' = [rolling EXCEPT ![a] = today]
    /\ UNCHANGED <<today, hist, tasks, rest_days, last_roll_date, pending_roll, clamped,
                   fin_log, completing, finalizing, call>>

\* the same caller past the test: penalties, roll_tasks, today's record and
\* last_roll_date; run_auto_roll rolls with mood 5 and clears pending_roll
RollAttempt_execute(a, mood) ==
    /\ rolling[a] # 0
    /\ a = "scheduler" => mood = <<"5">>
    /\ ExecuteRoll(mood)
    /\ pending_roll' = (pending_roll /\ a # "scheduler")
    /\ rolling' = [rolling EXCEPT ![a] = 0]
    /\ UNCHANGED <<today, rest_days, completing, finalizing, call>>

\* ------------------------------------------------------ calls of date_utils
\* the dates, wall-clock times and strings that the calls are made with
LastDate == 9

CallDates == 1..LastDate

ClockTimes ==
    {0, 1, clock(5, 59) + 59, clock(6, 0), clock(6, 0) + 30, clock(7, 0), clock(8, 0),
     clock(10, 0), clock(12, 30), clock(23, 59) + 59}

Nows == {combine(d, t) : d \in CallDates, t \in ClockTimes}

\* "HH:MM" as a clock shows the hour and the minute
HHMM(hour, minute) ==
    <<DigitChars[(hour \div 10) + 1], DigitChars[(hour % 10) + 1], ":",
      DigitChars[(minute \div 10) + 1], DigitChars[(minute % 10) + 1]>>

StartHours == {0, 6, 12, 23}

StartMinutes == {0, 30, 59}

WellFormedTimes == {HHMM(hour, minute) : hour \in StartHours, minute \in StartMinutes}

\* day-start strings without a colon, with a part that is no number, and with an
\* hour or a minute out of range
MalformedTimes ==
    {<<"0", "6", "0", "0">>, <<"6">>,
     <<"a", "b", ":", "c", "d">>, <<"0", "6", ":">>, <<"0", "6", ":", "x", "0">>,
     <<"2", "5", ":", "0", "0">>, <<"1", "2", ":", "6", "0">>,
     <<"-", "1", ":", "0", "0">>}

DayStartTimes == WellFormedTimes \cup MalformedTimes

RecurrenceTypes == {"none", "daily", "every_n_days", "weekly"}

\* recurrence_interval; 0 also stands for None
Intervals == 0..3

\* lists of weekdays, and the JSON text of a list
WeekdayLists == {<< >>, <<0>>, <<1>>, <<6>>, <<0, 2, 4>>, <<1, 3, 5>>, <<5, 6>>}

RECURSIVE JoinDigits(_)
JoinDigits(w) ==
    IF Len(w) = 1 THEN <<DigitChars[w[1] + 1]>>
    ELSE <<DigitChars[w[1] + 1], ",">> \o JoinDigits(Tail(w))

json_dumps(w) == IF w = << >> THEN <<"[", "]">> ELSE <<"[">> \o JoinDigits(w) \o <<"]">>

\* texts that are no JSON
UnparseableDays == {<<"a", "b", "c">>, <<"[", "1", ",">>, <<"1", ",", "3">>}

RecurrenceDays == {json_dumps(w) : w \in WeekdayLists} \cup UnparseableDays \cup {<< >>}

\* the start of a habit: 08:00 on a date
Starts == {combine(d, clock(8, 0)) : d \in CallDates}

Call_get_effective_date ==
    /\ call = NoCall
    /\ \E now \in Nows, day_start_enabled \in BOOLEAN, day_start_time \in DayStartTimes :
          call' = [fn |-> "get_effective_date", now |-> now,
                   day_start_enabled |-> day_start_enabled,
                   day_start_time |-> day_start_time,
                   result |-> get_effective_date(now, day_start_enabled, day_start_time)]
    /\ UNCHANGED <<today, hist, tasks, rest_days, last_roll_date, pending_roll, clamped,
                   fin_log, requests>>

Call_get_day_range ==
    /\ call = NoCall
    /\ \E target_date \in CallDates, day_start_enabled \in BOOLEAN,
          day_start_time \in DayStartTimes :
          call' = [fn |-> "get_day_range", target_date |-> target_date,
                   day_start_enabled |-> day_start_enabled,
                   day_start_time |-> day_start_time,
                   result |-> get_day_range(target_date, day_start_enabled,
                                            day_start_time)]
    /\ UNCHANGED <<today, hist, tasks, rest_days, last_roll_date, pending_roll, clamped,
                   fin_log, requests>>

Call_calculate_next_due_date ==
    /\ call = NoCall
    /\ \E recurrence_type \in RecurrenceTypes, from_date \in CallDates,
          recurrence_interval \in Intervals, recurrence_days \in RecurrenceDays :
          call' = [fn |-> "calculate_next_due_date", recurrence_type |-> recurrence_type,
                   from_date |-> from_date, recurrence_interval |-> recurrence_interval,
                   recurrence_days |-> recurrence_days,
                   result |-> calculate_next_due_date(recurrence_type, from_date,
                                  recurrence_interval, recurrence_days)]
    /\ UNCHANGED <<today, hist, tasks, rest_days, last_roll_date, pending_roll, clamped,
                   fin_log, requests>>

Call_calculate_next_occurrence ==
    /\ call = NoCall
    /\ \E start_date \in Starts, now \in Nows, recurrence_type \in RecurrenceTypes,
          recurrence_interval \in Intervals \ {0}, recurrence_days \in RecurrenceDays :
          call' = [fn |-> "calculate_next_occurrence", start_date |-> start_date,
                   now |-> now, recurrence_type |-> recurrence_type,
                   recurrence_interval |-> recurrence_interval,
                   recurrence_days |-> recurrence_days,
                   result |-> calculate_next_occurrence(start_date, now, recurrence_type,
                                  recurrence_interval, recurrence_days)]
    /\ UNCHANGED <<today, hist, tasks, rest_days, last_roll_date, pending_roll, clamped,
                   fin_log, requests>>

\* --------------------------------------------------- calls of TaskService
\* a row of the tasks table for a call of the scheduler
Candidate(id, status, is_habit, is_today, energy, priority, due, depends_on) ==
    [Task(id, is_habit, energy, due, "skill", "none", 0, 0) EXCEPT
        !.status = status, !.is_today = is_today,
        !.priority = priority, !.depends_on = depends_on]

\* the rows a table is made of: row 1 has a negative urgency, row 2 depends on the
\* completed row 5, row 3 on the pending row 1, row 4 on a row that does not exist,
\* row 6 is a habit and row 7 carries the today flag of the day before
CandidatePool ==
    {Candidate(1, "pending", FALSE, FALSE, 0, 0, 0, 0),
     Candidate(2, "pending", FALSE, FALSE, 3, 5, 3, 5),
     Candidate(3, "pending", FALSE, FALSE, 5, 10, 0, 1),
     Candidate(4, "pending", FALSE, FALSE, 2, 1, 4, 8),
     Candidate(5, "completed", FALSE, FALSE, 1, 5, 0, 0),
     Candidate(6, "pending", TRUE, FALSE, 1, 5, 3, 0),
     Candidate(7, "pending", FALSE, TRUE, 4, 0, 9, 0)}

\* the mood strings: none, digits in and out of 0..5, two digits, not a digit
ScheduleMoods == {<< >>, <<"0">>, <<"3">>, <<"5">>, <<"9">>, <<"1", "2">>, <<"x">>}

MaxDailyLimit == 3

DailyLimits == (0 - 1)..MaxDailyLimit

\* the times of the call: midnight and half past noon of day 3
ScheduleTimes == {combine(3, 0), combine(3, clock(12, 30))}

\* TaskService.roll_tasks steps 2 and 3 on the table candidates:
\* clear_today_flag, then _schedule_weighted_tasks(mood, daily_limit)
Call_schedule_weighted_tasks ==
    /\ call = NoCall
    /\ \E candidates \in SUBSET CandidatePool, mood \in ScheduleMoods,
          daily_limit \in DailyLimits, now \in ScheduleTimes :
          LET cleared == clear_today_flag(candidates)
              ready == ready_tasks(cleared, mood)
          IN  \E selected_tasks \in Draws(ready, ready, now, slots(ready, daily_limit)) :
                call' = [fn |-> "_schedule_weighted_tasks", tasks |-> cleared,
                         mood |-> mood, daily_limit |-> daily_limit, now |-> now,
                         selected_tasks |-> selected_tasks,
                         result |-> mark_today(cleared, Selected(selected_tasks))]
    /\ UNCHANGED <<today, hist, tasks, rest_days, last_roll_date, pending_roll, clamped,
                   fin_log, requests>>


\* ------------------------------------------------- calls of PointsService
\* the times spent on a task, in seconds: around min_work_time_seconds and around
\* every multiple of ten minutes up to MaxTimeUnits
MaxTimeUnits == 31

TimesSpent ==
    {0, min_work_time_seconds - 1, min_work_time_seconds, min_work_time_seconds + 1}
      \cup {t \in {k * 600 + d : k \in 0..MaxTimeUnits, d \in {-1, 0, 1}} : t >= 0}

Energies == 0..5

Call_calculate_task_points ==
    /\ call = NoCall
    /\ \E energy \in Energies, time_spent \in TimesSpent, started_at \in BOOLEAN :
          call' = [fn |-> "calculate_task_points", energy |-> energy,
                   time_spent |-> time_spent, started_at |-> started_at,
                   result |-> calculate_task_points(energy, time_spent, started_at)]
    /\ UNCHANGED <<today, hist, tasks, rest_days, last_roll_date, pending_roll, clamped,
                   fin_log, requests>>

\* the application as deployed: completions, manual and scheduled rollovers
Next ==
    \/ NextDay(RollDays)
    \/ \E task \in tasks, work \in Work : CompleteTaskWorkflow_execute(task, work)
    \/ \E mood \in Moods : RollDayWorkflow_execute(mood)
    \/ \E mood \in Moods : complete_roll(mood)
    \/ run_auto_roll_stuck
    \/ run_auto_roll_timeout
    \/ run_auto_roll_prepare
    \/ run_auto_penalties

Spec == Init /\ [][Next]_vars

\* completions, manual rollovers and finalize_day_penalties called for past dates
NextFinalize ==
    \/ NextDay(RollDays)
    \/ \E task \in tasks, work \in Work : CompleteTaskWorkflow_execute(task, work)
    \/ \E mood \in Moods : RollDayWorkflow_execute(mood)
    \/ \E d \in Dates : FinalizeDay(d)

SpecFinalize == InitNoRestDays /\ [][NextFinalize]_vars

\* the ledger driven by completions and finalize_day_penalties alone, over the
\* whole calendar
NextLedger ==
    \/ NextDay(MaxDay)
    \/ \E task \in tasks, work \in Work : CompleteTaskWorkflow_execute(task, work)
    \/ \E d \in Dates : FinalizeDay(d)

SpecLedger == InitNoRestDays /\ [][NextLedger]_vars

\* completions and manual rollovers over the whole calendar, day 3 a rest day
InitRestDayThree == InitWith({{3}})

NextRoll ==
    \/ NextDay(MaxDay)
    \/ \E task \in tasks, work \in Work : CompleteTaskWorkflow_execute(task, work)
    \/ \E mood \in Moods : RollDayWorkflow_execute(mood)

SpecRestStreak == InitRestDayThree /\ [][NextRoll]_vars

\* the same with day 2 a rest day, which a catch-up from day 1 steps over
InitRestDayTwo == InitWith({{2}})

SpecRestCatchUp == InitRestDayTwo /\ [][NextRoll]_vars

\* rollover attempts of the user and of the scheduler that interleave between the
\* can_roll test and the roll, with completions and the morning preparation
NextRollRace ==
    \/ NextDay(RaceDays)
    \/ \E task \in tasks, work \in Work : CompleteTaskWorkflow_execute(task, work)
    \/ run_auto_roll_prepare
    \/ run_auto_roll_stuck
    \/ \E a \in Attempts : RollAttempt_can_roll(a)
    \/ \E a \in Attempts, mood \in Moods : RollAttempt_execute(a, mood)

SpecRollRace == InitNoRestDays /\ [][NextRollRace]_vars

\* completions and finalize calls that interleave between the read of a record
\* and its commit; a date without a record is finalized in one step
NextLedgerRace ==
    \/ NextDay(RaceDays)
    \/ \E task \in tasks, work \in Work : CompleteTaskWorkflow_read(task, work)
    \/ CompleteTaskWorkflow_commit
    \/ \E d \in Dates : finalize_day_penalties_read(d)
    \/ finalize_day_penalties_commit
    \/ \E d \in Dates : ~hist[d].exists /\ FinalizeDay(d)

SpecLedgerRace == InitNoRestDays /\ [][NextLedgerRace]_vars

\* one call of a function of date_utils, with every input of the sets above
NextDates ==
    \/ Call_get_effective_date
    \/ Call_get_day_range
    \/ Call_calculate_next_due_date
    \/ Call_calculate_next_occurrence

SpecDates == InitNoRestDays /\ [][NextDates]_vars

\* one call of PointsService.calculate_task_points
SpecPoints == InitNoRestDays /\ [][Call_calculate_task_points]_vars

\* one call of the scheduler of TaskService
SpecSchedule == InitNoRestDays /\ [][Call_schedule_weighted_tasks]_vars

\* completions, manual rollovers and finalize_day_penalties called for past dates,
\* with or without a rest day in the calendar
SpecRestDays == Init /\ [][NextFinalize]_vars

\* ------------------------------------------------------------- properties
\* a record that carries penalty_breakdown
Finalized(rec) == rec.exists /\ rec.details.penalty_breakdown.present

NoDuplicates(seq) == \A i, j \in 1..Len(seq) : seq[i] = seq[j] => i = j

InLog(d) == \E i \in 1..Len(fin_log) : fin_log[i] = d

Pos(d) == CHOOSE i \in 1..Len(fin_log) : fin_log[i] = d

FinalFields(rec) ==
    <<rec.points_penalty, rec.points_bonus, rec.penalty_streak,
      rec.details.penalty_breakdown>>

\* C1: over rollovers, scheduler runs and completions no date is finalized twice;
\* once a record carries penalty_breakdown its points_penalty, points_bonus,
\* penalty_streak and penalty_breakdown stay as they are; and a step that finalizes
\* no date moves a cumulative_total only by the points earned in that step.
C1_FinalizedOnce ==
    [][/\ NoDuplicates(fin_log')
       /\ \A d \in Dates : Finalized(hist[d]) =>
              FinalFields(hist'[d]) = FinalFields(hist[d])
       /\ fin_log' = fin_log =>
              \A d \in Dates : hist[d].exists =>
                  hist'[d].cumulative_total - hist[d].cumulative_total
                      = hist'[d].points_earned - hist[d].points_earned]_vars

\* the morning preparation finalized yesterday with a penalty and the manual roll
\* of the same day has then run calculate_daily_penalties over it again
C1_Witness ==
    /\ pending_roll /\ last_roll_date = today /\ today > 1
    /\ Finalized(hist[today - 1]) /\ hist[today - 1].points_penalty > 0
    /\ InLog(today - 1)

\* C5: every record's cumulative_total is >= 0.
C5_NonNegative ==
    \A d \in Dates : hist[d].exists => hist[d].cumulative_total >= 0

\* a penalty larger than the balance has been applied and left the record at 0
C5_Witness ==
    /\ clamped
    /\ \E d \in Dates : /\ hist[d].exists /\ hist[d].points_penalty > 0
                        /\ hist[d].cumulative_total = 0

\* the five values of the returned dictionary that the callers read
Returned(ret) ==
    <<ret.penalty, ret.completion_rate, ret.tasks_completed, ret.tasks_planned,
      ret.missed_habits>>

SecondCallSame(first, second, d) ==
    /\ second.hist[d] = first.hist[d]
    /\ Returned(second.ret) = Returned(first.ret)

FinalizeTwice(d) ==
    SecondCallSame(
        finalize_day_penalties(hist, tasks, d, is_rest_day_fn(rest_days, d)),
        finalize_day_penalties(
            finalize_day_penalties(hist, tasks, d, is_rest_day_fn(rest_days, d)).hist,
            finalize_day_penalties(hist, tasks, d, is_rest_day_fn(rest_days, d)).tasks,
            d, is_rest_day_fn(rest_days, d)),
        d)

DailyTwice(first) ==
    SecondCallSame(first,
        calculate_daily_penalties(first.hist, first.tasks, today, rest_days,
                                  last_roll_date),
        today - 1)

\* C2: from every ledger state, a second finalize call for a date directly after
\* the first (finalize_day_penalties(d), or calculate_daily_penalties for
\* yesterday) leaves the date's record as the first call left it and returns the
\* same penalty, completion_rate, tasks_completed, tasks_planned and missed_habits.
C2_Idempotent ==
    /\ \A d \in Dates : d < today => FinalizeTwice(d)
    /\ today > 1 =>
           DailyTwice(calculate_daily_penalties(hist, tasks, today, rest_days,
                                                last_roll_date))

\* what a reader of the ledger sees of a date: penalty, bonus, daily and
\* cumulative total (those of a fresh record when there is none yet)
Visible(h, d) ==
    IF h[d].exists
    THEN <<h[d].points_penalty, h[d].points_bonus, h[d].daily_total,
           h[d].cumulative_total>>
    ELSE <<0, 0, 0, previous_cumulative(h, d)>>

LaterTotals(h, d) ==
    [e \in {x \in Dates : x > d /\ h[x].exists} |-> h[e].cumulative_total]

\* a call that finalizes the date d from the ledger h: after each commit but the
\* last, d is unfinalized and nothing of d or of the later totals has moved
BreakdownCommitIsLast(h, o, d) ==
    \A k \in 1..(Len(o.trace) - 1) :
        /\ ~Finalized(o.trace[k].hist[d])
        /\ o.trace[k].hist[d].exists => ~already_finalized(o.trace[k].hist[d])
        /\ Visible(o.trace[k].hist, d) = Visible(h, d)
        /\ LaterTotals(o.trace[k].hist, d) = LaterTotals(h, d)

FinalizeCommits(o, d) == o.log = <<d>> => BreakdownCommitIsLast(hist, o, d)

DailyCommits(o) == Len(o.log) = 1 => BreakdownCommitIsLast(hist, o, o.log[1])

\* C3: on every finalize path the commit that stores penalty_breakdown is the last
\* one of the call; after any earlier commit the date is still unfinalized, is not
\* taken for finalized by the next call, and shows no change of points_penalty,
\* points_bonus, daily_total or cumulative_total, nor does any later date's total.
C3_BreakdownLast ==
    /\ \A d \in Dates : d < today =>
           FinalizeCommits(finalize_day_penalties(hist, tasks, d, is_rest_day_fn(rest_days, d)), d)
    /\ DailyCommits(calculate_daily_penalties(hist, tasks, today, rest_days,
                                              last_roll_date))

\* due date and status of every habit row
HabitDues(t) == {<<x.due, x.status>> : x \in {y \in t : y.is_habit}}

SameAsUninterrupted(rerun, o, d) ==
    /\ rerun.hist[d] = o.hist[d]
    /\ LaterTotals(rerun.hist, d) = LaterTotals(o.hist, d)
    /\ HabitDues(rerun.tasks) = HabitDues(o.tasks)

FinalizeRerun(o, d) ==
    \A k \in 1..Len(o.trace) :
        SameAsUninterrupted(
            finalize_day_penalties(o.trace[k].hist, o.trace[k].tasks, d, is_rest_day_fn(rest_days, d)),
            o, d)

DailyRerun(o) ==
    \A k \in 1..Len(o.trace) : \A i \in 1..Len(o.log) :
        SameAsUninterrupted(
            calculate_daily_penalties(o.trace[k].hist, o.trace[k].tasks, today,
                                      rest_days, last_roll_date),
            o, o.log[i])

\* C4: a finalize call cut off after any of its commits and then run again leaves
\* the date's record, the cumulative_total of every later record and the habits'
\* due dates as one uninterrupted call does.
C4_RerunAfterInterrupt ==
    /\ \A d \in Dates : d < today =>
           FinalizeRerun(finalize_day_penalties(hist, tasks, d, is_rest_day_fn(rest_days, d)), d)
    /\ DailyRerun(calculate_daily_penalties(hist, tasks, today, rest_days,
                                            last_roll_date))

RECURSIVE SumDaily(_, _, _)
SumDaily(h, d1, d2) ==
    IF d2 <= d1 THEN 0
    ELSE (IF h[d2].exists THEN h[d2].daily_total ELSE 0) + SumDaily(h, d1, d2 - 1)

\* C6: as long as no total has been cut off at 0, for any two records d1 < d2
\* cumulative_total(d2) = cumulative_total(d1) + the daily_total of the records
\* dated in (d1, d2].
C6_CumulativeIsSum ==
    ~clamped =>
        \A d1, d2 \in Dates :
            d1 < d2 /\ hist[d1].exists /\ hist[d2].exists =>
                hist[d2].cumulative_total
                    = hist[d1].cumulative_total + SumDaily(hist, d1, d2)

\* the total of d before a step that finalizes it
TotalBefore(d) ==
    IF hist[d].exists THEN hist[d].cumulative_total ELSE previous_cumulative(hist, d)

\* C7: a step that finalizes the date d and moves its cumulative_total by D moves
\* the cumulative_total of every record dated after d by exactly D and changes no
\* record dated before d.
C7_PropagationExact ==
    [][\A d \in Dates : fin_log' = Append(fin_log, d) =>
          \A e \in Dates : hist[e].exists =>
              /\ e > d => hist'[e].cumulative_total
                            = hist[e].cumulative_total
                                + (hist'[d].cumulative_total - TotalBefore(d))
              /\ e < d => hist'[e] = hist[e]]_vars

\* the penalty of a finalized record before the progressive multiplier
RawPenalty(rec) ==
    rec.details.penalty_breakdown.idle_penalty
        + rec.details.penalty_breakdown.incomplete_penalty
        + rec.details.penalty_breakdown.missed_habits_penalty

\* d has been finalized with a raw penalty above 0
Penalized(d) == Finalized(hist[d]) /\ InLog(d) /\ RawPenalty(hist[d]) > 0

\* d has been finalized with no penalty
Clean(d) == Finalized(hist[d]) /\ InLog(d) /\ RawPenalty(hist[d]) = 0

\* the dates d..e have each been finalized in date order
InDateOrder(d, e) ==
    \A x \in d..e : InLog(x) /\ (x > d => Pos(x - 1) < Pos(x))

\* when d was finalized the date before it had no record or an effective streak of 0
StartsFresh(d) ==
    \/ d = 1
    \/ /\ InLog(d - 1) => Pos(d - 1) < Pos(d)
       /\ _get_effective_penalty_streak(hist, d - 1) = 0

\* C8: in a run of consecutive dates finalized in date order, each with a raw
\* penalty above 0, that starts after a date with no record or an effective streak
\* of 0, the i-th date has penalty_streak = i, the multiplier
\* 1 + min(i * progressive_penalty_factor, progressive_penalty_max - 1), which is at
\* most progressive_penalty_max, and points_penalty = floor(raw * multiplier).
C8_ProgressiveRun ==
    \A d, e \in Dates :
        /\ d <= e
        /\ InDateOrder(d, e)
        /\ \A x \in d..e : Penalized(x)
        /\ StartsFresh(d)
        => LET i == e - d + 1
               mult == 10 + Min(i * progressive_penalty_factor,
                                progressive_penalty_max - 10)
           IN  /\ hist[e].penalty_streak = i
               /\ hist[e].details.penalty_breakdown.progressive_multiplier = mult
               /\ mult <= progressive_penalty_max
               /\ hist[e].points_penalty = (RawPenalty(hist[e]) * mult) \div 10

\* C9: when fewer than penalty_streak_reset_days consecutive clean dates lie between
\* two penalized dates, all finalized in date order, each clean date keeps the
\* streak of the earlier penalized date and the later penalized date gets that
\* streak + 1, on every finalize path.
C9_StickyStreak ==
    \A p, q \in Dates :
        /\ p < q
        /\ q - p - 1 < penalty_streak_reset_days
        /\ Penalized(p) /\ Penalized(q)
        /\ \A c \in (p + 1)..(q - 1) : Clean(c)
        /\ InDateOrder(p, q)
        => /\ \A c \in (p + 1)..(q - 1) :
                  hist[c].penalty_streak = hist[p].penalty_streak
           /\ hist[q].penalty_streak = hist[p].penalty_streak + 1

\* C10: when exactly penalty_streak_reset_days consecutive clean dates have been
\* finalized after a penalized date, all in date order, the next date finalized
\* with a raw penalty above 0 has penalty_streak = 1.
C10_ResetAfterCleanDays ==
    \A p, q \in Dates :
        /\ q - p - 1 = penalty_streak_reset_days
        /\ Penalized(p) /\ Penalized(q)
        /\ \A c \in (p + 1)..(q - 1) : Clean(c)
        /\ InDateOrder(p, q)
        => hist[q].penalty_streak = 1

\* ------------------------------------------------------------- rest days
\* the habit rows due on a date
HabitsDueOn(t, d) == {x \in t : x.is_habit /\ x.due = d}

\* finalize_day_penalties called for the rest day d returns penalty 0 and leaves
\* the ledger and the tasks table as they are, committing nothing
RestDayCallChangesNothing(o) ==
    /\ o.ret.penalty = 0
    /\ o.hist = hist /\ o.tasks = tasks
    /\ o.trace = << >> /\ o.log = << >> /\ ~o.clamp

\* a penalty call of the rollover finalizes no rest day: its record is neither
\* created nor given a penalty, bonus, streak or breakdown, and the habits due on
\* it stay due on it
RestDaySkipped(o, d) ==
    /\ \A i \in 1..Len(o.log) : o.log[i] # d
    /\ o.hist[d].exists = hist[d].exists
    /\ hist[d].exists => FinalFields(o.hist[d]) = FinalFields(hist[d])
    /\ HabitsDueOn(tasks, d) \subseteq HabitsDueOn(o.tasks, d)

\* C11: finalizing a date that is a RestDay returns penalty 0 and changes nothing,
\* whatever its record, planned tasks or due habits; the multi-day catch-up of
\* calculate_daily_penalties skips every RestDay; and so no RestDay is ever
\* finalized or penalized.
C11_RestDayFrame ==
    \A d \in rest_days :
        /\ RestDayCallChangesNothing(
               finalize_day_penalties(hist, tasks, d, is_rest_day_fn(rest_days, d)))
        /\ d < today =>
               RestDaySkipped(calculate_daily_penalties(hist, tasks, today, rest_days,
                                                        last_roll_date), d)
        /\ ~InLog(d)
        /\ hist[d].exists => /\ ~Finalized(hist[d])
                             /\ hist[d].points_penalty = 0
                             /\ hist[d].penalty_streak = 0

\* a rollover has finalized the days before and after a rest day that has a
\* record of its own, and has passed over the rest day
C11_Witness ==
    /\ 2 \in rest_days /\ today = 4 /\ last_roll_date = 4
    /\ hist[2].exists /\ hist[2].points_earned > 0
    /\ InLog(1) /\ InLog(3) /\ ~InLog(2)

\* ------------------------------------------------------------- rollover marker
\* C12: once RollDayWorkflow.execute has completed for the effective day (the
\* last_roll_date marker is today), no further execute call, with any mood, changes
\* anything: records, penalties, totals, is_today flags, habits, planned tasks
\* and settings stay as they are.
C12_SecondRollIsNoOp ==
    last_roll_date = today =>
        \A mood \in Moods : ~ENABLED (RollDayWorkflow_execute(mood) /\ vars' # vars)

\* the roll of today has finalized yesterday with a penalty and planned a task,
\* and a task is still ready for selection
C12_Witness ==
    /\ last_roll_date = today /\ today > 1
    /\ Finalized(hist[today - 1]) /\ hist[today - 1].points_penalty > 0
    /\ hist[today].exists /\ hist[today].tasks_planned > 0
    /\ \E x \in tasks : x.is_today /\ x.status = "pending"

\* ------------------------------------------------------------- concurrent rollovers
\* C13: of the rollover attempts made for the same effective day, only one takes
\* effect: an attempt that comes to its roll when last_roll_date is already that
\* day selects nothing and writes nothing to the ledger or the tasks table, and no
\* date's penalty is applied twice.
C13_RollTakesEffectOnce ==
    [][/\ \A a \in Attempts :
            (rolling[a] = today /\ rolling'[a] = 0 /\ last_roll_date = today)
                => (hist' = hist /\ tasks' = tasks /\ fin_log' = fin_log)
       /\ NoDuplicates(fin_log')]_vars

\* ------------------------------------------------------------- completion and finalize
\* a completion and a finalize call are both between their read and their commit
\* of the same date's record
Overlap ==
    completing.active /\ finalizing.active /\ completing.date = finalizing.date

\* the commit of the completion adds its points to the record as it is now: no
\* penalty, bonus or breakdown that the record carries is taken back
CompletionOnCurrent(d) ==
    /\ hist'[d].cumulative_total = hist[d].cumulative_total + completing.points
    /\ hist'[d].daily_total = hist[d].daily_total + completing.points
    /\ hist'[d].details.penalty_breakdown = hist[d].details.penalty_breakdown

\* the commit of the finalize call applies its bonus and penalty to the record as
\* it is now: no points earned in between are taken back
FinalizeOnCurrent(d) ==
    /\ hist'[d].cumulative_total =
           Max(0, hist[d].cumulative_total + hist'[d].points_bonus
                    - hist'[d].points_penalty)
    /\ hist'[d].daily_total =
           hist[d].points_earned + hist'[d].points_bonus - hist'[d].points_penalty
    /\ hist'[d].details.task_completions = hist[d].details.task_completions

\* C14: a completion and a finalize call that target the same date never overlap
\* between the read of the date's record and its commit, and each commit applies
\* to the record as it is at that moment: neither the points of the completion nor
\* the penalty and bonus of the finalization are lost or applied to a stale total.
C14_CompletionFinalizeExclusive ==
    [][/\ ~Overlap'
       /\ (completing.active /\ ~completing'.active)
              => CompletionOnCurrent(completing.date)
       /\ (finalizing.active /\ ~finalizing'.active)
              => FinalizeOnCurrent(finalizing.date)]_vars

\* ------------------------------------------------------------- idle days
\* d has been finalized as an idle day and nothing else: no task and no habit
\* completed, the idle penalty charged, no incomplete-day and no missed-habit
\* penalty
IdleDay(d) ==
    /\ Finalized(hist[d]) /\ InLog(d)
    /\ hist[d].tasks_completed = 0 /\ hist[d].habits_completed = 0
    /\ hist[d].details.penalty_breakdown.idle_penalty = idle_penalty
    /\ hist[d].details.penalty_breakdown.incomplete_penalty = 0
    /\ hist[d].details.penalty_breakdown.missed_habits_penalty = 0

\* two idle days in a row, finalized in date order, the first with no prior streak
IdleDays(d) ==
    /\ d + 1 \in Dates
    /\ InDateOrder(d, d + 1)
    /\ IdleDay(d) /\ IdleDay(d + 1)
    /\ StartsFresh(d)

\* C15 as stated: with idle_penalty 30, factor 0.1 and no prior streak, the idle
\* day D is finalized with penalty 30 and penalty_streak 1, and the next idle day
\* D+1 with penalty 33 and penalty_streak 2.
C15_IdleDaysAsStated ==
    \A d \in Dates :
        IdleDays(d) => /\ hist[d].points_penalty = 30
                       /\ hist[d].penalty_streak = 1
                       /\ hist[d + 1].points_penalty = 33
                       /\ hist[d + 1].penalty_streak = 2

\* C15, amended: with idle_penalty 30, factor 0.1 and no prior streak, the idle
\* day D is finalized with penalty floor(30 * 1.1) = 33 and penalty_streak 1, and
\* the next idle day D+1 with penalty floor(30 * 1.2) = 36 and penalty_streak 2:
\* the multiplier of the first penalized day is already 1 + factor.
C15_IdleDays ==
    \A d \in Dates :
        IdleDays(d) => /\ hist[d].points_penalty = 33
                       /\ hist[d].penalty_streak = 1
                       /\ hist[d + 1].points_penalty = 36
                       /\ hist[d + 1].penalty_streak = 2

\* two idle days in a row have been finalized by the rollovers
C15_Witness ==
    \E d \in Dates : IdleDays(d) /\ last_roll_date = d + 2

\* C16: a RestDay between penalized days neither resets nor advances the penalty
\* streak: after the idle days D (streak 1) and D+1 (streak 2) and the RestDay D+2,
\* the idle day D+3 is finalized with penalty_streak 3 and penalty
\* floor(30 * 1.3) = 39, whether or not D+2 has a record.
C16_RestDayKeepsStreak ==
    \A d \in Dates :
        /\ d + 3 \in Dates
        /\ IdleDays(d)
        /\ hist[d].penalty_streak = 1 /\ hist[d + 1].penalty_streak = 2
        /\ d + 2 \in rest_days
        /\ IdleDay(d + 3) /\ Pos(d + 1) < Pos(d + 3)
        => /\ hist[d + 3].penalty_streak = 3
           /\ hist[d + 3].points_penalty = 39

\* ---------------------------------------------------------------- C17
Elements(w) == {w[i] : i \in 1..Len(w)}

\* the earliest date strictly after from_date whose weekday is in the list w
EarliestAfter(from_date, w) ==
    from_date + (CHOOSE k \in 1..7 :
                    /\ weekday(from_date + k) \in Elements(w)
                    /\ \A j \in 1..(k - 1) : weekday(from_date + j) \notin Elements(w))

NextDueDateAsStated(c) ==
    CASE c.recurrence_type = "none" -> c.result = 0
      [] c.recurrence_type = "daily" -> c.result = c.from_date + 1
      [] c.recurrence_type = "every_n_days" ->
             c.result = c.from_date + Max(1, c.recurrence_interval)
      [] c.recurrence_type = "weekly" ->
             /\ \A w \in WeekdayLists \ {<< >>} :
                   c.recurrence_days = json_dumps(w) =>
                       /\ c.result = EarliestAfter(c.from_date, w)
                       /\ c.result <= c.from_date + 7
             /\ c.recurrence_days \in UnparseableDays \cup {<< >>, json_dumps(<< >>)} =>
                   c.result = c.from_date + 7

\* C17: calculate_next_due_date returns None for "none", from + 1 day for "daily",
\* from + max(1, interval) days for "every_n_days", for "weekly" with a non-empty
\* list of weekdays the earliest date strictly after from whose weekday is listed,
\* at most 7 days later, and from + 7 days for an empty or unparseable list.
C17_NextDueDate ==
    call.fn = "calculate_next_due_date" => NextDueDateAsStated(call)

\* ---------------------------------------------------------------- C18
\* start + m * n days with the smallest positive m that is at or after now
SmallestMultipleAtOrAfter(start_date, now, n) ==
    start_date
      + timedelta(n * (CHOOSE m \in 1..(LastDate + 1) :
                          /\ start_date + timedelta(m * n) >= now
                          /\ \A k \in 1..(m - 1) : start_date + timedelta(k * n) < now))

\* C18: for "every_n_days" with interval n >= 1 and a start in the past,
\* calculate_next_occurrence returns start + m * n days with the smallest positive
\* m for which that datetime is at or after now; a start at or after now is returned
\* unchanged for every recurrence type.
C18_NextOccurrence ==
    call.fn = "calculate_next_occurrence" =>
        /\ call.start_date >= call.now => call.result = call.start_date
        /\ call.recurrence_type = "every_n_days" /\ call.start_date < call.now =>
               call.result = SmallestMultipleAtOrAfter(call.start_date, call.now,
                                                       call.recurrence_interval)

\* ---------------------------------------------------------------- C19
\* the day-start string of the call is "HH:MM" for the hour and the minute
IsTime(c, hour, minute) == c.day_start_time = HHMM(hour, minute)

EffectiveDateAsStated(c) ==
    /\ ~c.day_start_enabled => c.result = date_of(c.now)
    /\ c.day_start_enabled =>
           \A hour \in 0..23, minute \in 0..59 :
               IsTime(c, hour, minute) =>
                   c.result = IF time_of(c.now) >= clock(hour, minute)
                              THEN date_of(c.now)
                              ELSE date_of(c.now) - 1

\* now lies in the 24 hours that get_day_range gives for the effective date
NowInRangeOfEffectiveDate(c) ==
    LET range == get_day_range(c.result, c.day_start_enabled, c.day_start_time)
    IN  /\ range[1] <= c.now
        /\ c.now < range[2]
        /\ range[2] = range[1] + SecondsPerDay

\* the end of the range of a date is the start of the range of the next date
EndIsNextStart(c) ==
    c.result[2] = get_day_range(c.target_date + 1, c.day_start_enabled,
                                c.day_start_time)[1]

WellFormedCall(c) == ~c.day_start_enabled \/ c.day_start_time \in WellFormedTimes

\* C19: for every wall-clock time now and every well-formed HH:MM day-start time
\* the effective date is now's calendar date when the custom day start is disabled
\* or now's time of day is at or after the day-start time, and the previous
\* calendar date otherwise; now lies in the half-open 24-hour interval that
\* get_day_range returns for that effective date, and end(d) = start(d + 1).
C19_EffectiveDateAndRange ==
    /\ call.fn = "get_effective_date" /\ WellFormedCall(call) =>
           EffectiveDateAsStated(call) /\ NowInRangeOfEffectiveDate(call)
    /\ call.fn = "get_day_range" /\ WellFormedCall(call) => EndIsNextStart(call)

\* a call before the day start, which gives the previous calendar date
C19_Witness ==
    /\ call.fn = "get_effective_date"
    /\ call.day_start_enabled
    /\ call.day_start_time = HHMM(6, 0)
    /\ time_of(call.now) = clock(5, 59) + 59
    /\ call.result = date_of(call.now) - 1

\* ---------------------------------------------------------------- C20
MalformedCall(c) == c.day_start_enabled /\ c.day_start_time \in MalformedTimes

\* C20: for every malformed day-start string (no colon, non-numeric, hour or minute
\* out of range) with the custom day start enabled, get_effective_date and
\* get_day_range return as if the day started at midnight: the effective date is
\* now's calendar date and the range of a date is midnight to the next midnight.
C20_MalformedMeansMidnight ==
    /\ call.fn = "get_effective_date" /\ MalformedCall(call) =>
           call.result = date_of(call.now)
    /\ call.fn = "get_day_range" /\ MalformedCall(call) =>
           call.result = MidnightRange(call.target_date)

\* ---------------------------------------------------------------- C21
\* the time quality of the claim, in tenths
TimeQualityAsStated(energy, time_spent) ==
    LET expected == energy * minutes_per_energy_unit * 60
    IN  CASE time_spent < min_work_time_seconds -> 5
          [] time_spent >= min_work_time_seconds /\ expected = 0 -> 10
          [] OTHER ->
              CASE 10 * time_spent < 5 * expected -> 8
                [] 10 * time_spent >= 5 * expected /\ 10 * time_spent <= 15 * expected -> 10
                [] 10 * time_spent > 15 * expected /\ 10 * time_spent <= 30 * expected -> 9
                [] OTHER -> 7

\* floor(base * (energyMultBase + energy * step) * timeQuality * focus), at least 1
TaskPointsAsStated(energy, time_spent, started) ==
    LET thousandths == points_per_task_base * (energy_mult_base + energy * energy_mult_step)
                         * TimeQualityAsStated(energy, time_spent)
                         * (IF started THEN 10 ELSE 8)
        floor == CHOOSE n \in 0..(thousandths \div 1000 + 1) :
                     1000 * n <= thousandths /\ thousandths < 1000 * (n + 1)
    IN  IF floor >= 1 THEN floor ELSE 1

\* C21: calculate_task_points returns max(1, floor(base * (energyMultBase +
\* energy * step) * timeQuality * focus)) for every energy 0..5 and every time
\* spent, with timeQuality and focus as the claim lists them; energy 3 and 3600 s
\* give 12 when the task was started and 9 when not.
C21_TaskPoints ==
    /\ call.fn = "calculate_task_points" =>
           call.result = TaskPointsAsStated(call.energy, call.time_spent, call.started_at)
    /\ calculate_task_points(3, 3600, TRUE) = 12
    /\ calculate_task_points(3, 3600, FALSE) = 9

\* energy 3 and an hour of work on a task that was not started
C21_Witness ==
    /\ call.fn = "calculate_task_points"
    /\ call.energy = 3
    /\ call.time_spent = 3600
    /\ ~call.started_at
    /\ call.result = 9

\* ---------------------------------------------------------------- C22
DailyTotalIsBalance(rec) ==
    rec.daily_total = rec.points_earned + rec.points_bonus - rec.points_penalty

\* C22: every record in every reachable state has daily_total = points_earned +
\* points_bonus - points_penalty, also a record that had earned points when the
\* catch-up finalized it and a record created for a missed day.
C22_DailyTotal ==
    \A d \in Dates : hist[d].exists => DailyTotalIsBalance(hist[d])

\* ---------------------------------------------------------------- C23
NothingDone(rec) == rec.tasks_completed = 0 /\ rec.habits_completed = 0

IdleChargedAsStated(rec) ==
    rec.details.penalty_breakdown.idle_penalty
        = IF NothingDone(rec) THEN idle_penalty ELSE 0

\* C23: on every finalize path the idle penalty is charged exactly when the date's
\* tasks_completed and habits_completed are both 0; a date on which a task or a
\* habit was completed is never charged the idle penalty.
C23_IdleExactlyWhenNothingDone ==
    \A d \in Dates : _is_day_finalized(hist[d]) => IdleChargedAsStated(hist[d])

\* ---------------------------------------------------------------- C24
\* the planned_tasks entries of a record whose task_id is not among its
\* task_completions
PlannedNotCompleted(rec) ==
    {x \in rec.details.planned_tasks : x.task_id \notin rec.details.task_completions}

\* floor(incomplete_penalty_percent * S), S the sum of base * (energyMultBase +
\* energy * step) over the entries, here in tenths
IncompletePenaltyAsStated(rec) ==
    LET thousandths == incomplete_penalty_percent * SumPotential(PlannedNotCompleted(rec))
    IN  CHOOSE n \in 0..(thousandths \div 1000 + 1) :
            1000 * n <= thousandths /\ thousandths < 1000 * (n + 1)

\* the step finalizes the date d, whose record has planned tasks
FinalizesPlannedDay(d) ==
    /\ hist[d].exists
    /\ hist[d].details.planned_tasks # {}
    /\ ~_is_day_finalized(hist[d])
    /\ _is_day_finalized(hist'[d])

IncompleteChargedAsStated(d) ==
    /\ hist'[d].details.penalty_breakdown.incomplete_penalty
           = IncompletePenaltyAsStated(hist[d])
    /\ PlannedNotCompleted(hist[d]) = {} =>
           hist'[d].details.penalty_breakdown.incomplete_penalty = 0
    /\ PlannedNotCompleted(hist[d]) # {} =>
           hist'[d].details.penalty_breakdown.incomplete_penalty > 0

\* C24: whenever a date whose record has planned tasks is finalized, on any path,
\* its incomplete-day penalty is floor(incomplete_penalty_percent * S), S summed
\* over exactly the planned_tasks entries whose task_id is not among the date's
\* task_completions: 0 when every planned id was completed, positive when one is
\* missing, whatever the count of completed tasks.
C24_IncompleteById ==
    [][\A d \in Dates : FinalizesPlannedDay(d) => IncompleteChargedAsStated(d)]_vars

\* ---------------------------------------------------------------- C25
\* the habits due on the date d and not completed
DueNotCompleted(t, d) == {x \in t : x.is_habit /\ x.due = d /\ x.status # "completed"}

\* missed_habit_penalty_base for a skill habit, floor(base * 0.5) for a routine habit
MissedPenaltyAsStated(x) ==
    IF x.habit_type = "skill" THEN missed_habit_penalty_base
    ELSE CHOOSE n \in 0..missed_habit_penalty_base :
             2 * n <= missed_habit_penalty_base /\ missed_habit_penalty_base < 2 * (n + 1)

RECURSIVE SumMissedAsStated(_)
SumMissedAsStated(S) ==
    IF S = {} THEN 0
    ELSE LET x == CHOOSE y \in S : TRUE
         IN  MissedPenaltyAsStated(x) + SumMissedAsStated(S \ {x})

\* the step finalizes the non-rest date d before any other date
FinalizesFirst(d) ==
    /\ d \notin rest_days
    /\ Len(fin_log') > Len(fin_log)
    /\ fin_log'[Len(fin_log) + 1] = d
    /\ _is_day_finalized(hist'[d])

MissedHabitsCharged(d) ==
    LET breakdown == hist'[d].details.penalty_breakdown
    IN  /\ breakdown.missed_habits = {x.id : x \in DueNotCompleted(tasks, d)}
        /\ breakdown.missed_habits_penalty = SumMissedAsStated(DueNotCompleted(tasks, d))

\* C25: whenever a non-rest date is finalized, also yesterday inside the rollover,
\* the raw penalty includes missed_habit_penalty_base for each skill habit and
\* floor(base * 0.5) for each routine habit that was due on that date and not
\* completed, and penalty_breakdown lists exactly those habits.
C25_MissedHabitsCharged ==
    [][\A d \in Dates : FinalizesFirst(d) => MissedHabitsCharged(d)]_vars

\* ---------------------------------------------------------------- C26
PendingRecurringHabits(t) ==
    {x \in t : x.is_habit /\ x.status = "pending" /\ x.recurrence_type # "none"}

\* the step is a rollover that completes on the day today
RolloverCompletes == last_roll_date # today /\ last_roll_date' = today

\* each pending habit has one pending instance afterwards (the habits of the model
\* are told apart by habit_type and recurrence_type), none of them overdue
HabitsReappear ==
    /\ \A x \in PendingRecurringHabits(tasks) :
          Cardinality({y \in PendingRecurringHabits(tasks') :
                          /\ y.habit_type = x.habit_type
                          /\ y.recurrence_type = x.recurrence_type}) = 1
    /\ PendingRecurringHabits(tasks) # {} =>
          \A y \in PendingRecurringHabits(tasks') : y.due >= today

\* C26: after a rollover completes on the effective day T every recurring habit
\* that was pending before it has exactly one pending instance, due on T or later,
\* however many days were skipped and whether or not they were rest days.
C26_HabitNeverStaysOverdue == [][RolloverCompletes => HabitsReappear]_vars

\* ---------------------------------------------------------------- C27
\* the dates that the step finalizes, in the order it finalizes them
NewlyFinalized == SubSeq(fin_log', Len(fin_log) + 1, Len(fin_log'))

\* the dates of the catch-up: those before yesterday
IsCatchUpDate(d) == d < today - 1

StrictlyIncreasing(dates) ==
    \A i, j \in 1..Len(dates) : i < j => dates[i] < dates[j]

OwnRecordAndPenalty(d) ==
    /\ _is_day_finalized(hist'[d])
    /\ hist'[d].points_penalty > 0
    /\ hist'[d].details.penalty_breakdown.total_penalty = hist'[d].points_penalty

\* the streak of a catch-up date is one higher than that of the penalized date
\* before it: the date finalized before it in the same step, or for the first date
\* the penalized record of the day before
StreakFollows(dates, i) ==
    IF i > 1
    THEN hist'[dates[i]].penalty_streak = hist'[dates[i - 1]].penalty_streak + 1
    ELSE get_by_date(hist, dates[i] - 1).exists
           /\ get_by_date(hist, dates[i] - 1).points_penalty > 0 =>
         hist'[dates[i]].penalty_streak
             = get_by_date(hist, dates[i] - 1).penalty_streak + 1

\* C27: a rollover after skipped days finalizes the unfinalized dates before
\* yesterday in strictly increasing date order and before yesterday; each of them
\* gets its own record and penalty, with penalty_streak one higher than that of
\* the preceding penalized date.
C27_CatchUpInOrder ==
    [][/\ StrictlyIncreasing(NewlyFinalized)
       /\ \A i \in 1..Len(NewlyFinalized) :
             IsCatchUpDate(NewlyFinalized[i]) =>
                 /\ OwnRecordAndPenalty(NewlyFinalized[i])
                 /\ StreakFollows(NewlyFinalized, i)]_vars

\* ---------------------------------------------------------------- C28
\* a date of the last CatchUpLookback days that is no rest day and has a record
\* or had habits due
OwedFinalization(d) ==
    /\ today - CatchUpLookback <= d
    /\ d < today
    /\ ~is_rest_day_fn(rest_days, d)
    /\ hist[d].exists \/ count_habits_due(tasks, d) > 0

\* C28: after a rollover completes on the effective day T every date d with
\* T - 14 <= d < T that is no rest day and has a record or had habits due is
\* finalized: its record exists and carries penalty_breakdown; also yesterday when
\* it has no record but habits were due on it.
C28_NoDateLeftUnfinalized ==
    [][RolloverCompletes =>
          \A d \in Dates : OwedFinalization(d) => _is_day_finalized(hist'[d])]_vars

\* ---------------------------------------------------------------- C29
\* the mood as an energy level: a digit 0..5, or no level
MoodLevel(mood) ==
    IF Len(mood) = 1 /\ mood[1] \in {"0", "1", "2", "3", "4", "5"}
    THEN DigitValue(mood[1]) ELSE 6

\* the rows of the table t that may be marked: pending, not a habit, of an energy
\* within the mood, and with no dependency or one that is completed or missing
Eligible(t, mood) ==
    {x \in t :
        /\ x.status = "pending" /\ ~x.is_habit
        /\ x.energy <= MoodLevel(mood)
        /\ \A y \in t : y.id = x.depends_on => y.status = "completed"}

\* the rows that carry the today flag after the call
Marked(c) == {x \in c.result : x.is_today /\ ~x.is_habit}

\* C29: for every table, mood and daily limit, the list of tasks the scheduler
\* selects has no duplicates, the tasks marked for today are eligible ones
\* (pending, not habits, energy <= mood when the mood is a digit 0..5, dependency
\* completed or absent), their number is min(max(daily_limit, 0), number of
\* eligible tasks), every eligible task has a weight >= 1, and with a daily limit
\* >= 1 every eligible task is selected by some draw.
C29_ScheduledSet ==
    call.fn = "_schedule_weighted_tasks" =>
        LET eligible == Eligible(call.tasks, call.mood)
            marked == Marked(call)
        IN  /\ \A i, j \in 1..Len(call.selected_tasks) :
                  i # j => call.selected_tasks[i].id # call.selected_tasks[j].id
            /\ {x.id : x \in marked} = {x.id : x \in Selected(call.selected_tasks)}
            /\ {x.id : x \in marked} \subseteq {x.id : x \in eligible}
            /\ Cardinality(marked) = Min(Max(call.daily_limit, 0), Cardinality(eligible))
            /\ \A x \in eligible : weight(eligible, x, call.now) >= 1
            /\ call.daily_limit >= 1 =>
                  \A x \in eligible :
                      \E selected \in Selections(ready_tasks(call.tasks, call.mood),
                                                 call.daily_limit, call.now) :
                          x \in selected

\* a call with mood 5 on a table with a pending task whose dependency is pending
\* and an eligible task of negative urgency, where two of more eligible tasks
\* are marked
C29_Witness ==
    /\ call.fn = "_schedule_weighted_tasks"
    /\ call.mood = <<"5">>
    /\ call.daily_limit = 2
    /\ Cardinality(Marked(call)) = 2
    /\ Cardinality(Eligible(call.tasks, call.mood)) > 2
    /\ \E x \in call.tasks, y \in call.tasks :
          /\ x.status = "pending" /\ ~x.is_habit
          /\ y.id = x.depends_on /\ y.status = "pending"
    /\ \E x \in Eligible(call.tasks, call.mood) : calculate_urgency(x, call.now) < 0

\* ---------------------------------------------------------------- C30
\* the step saves the daily plan of the date d: the roll of today
SavesPlan(d) == d = today /\ last_roll_date' # last_roll_date

\* the step leaves the sub-objects of the details of the record of d that it does
\* not write: task_completions only grows, planned_tasks changes only when the
\* plan is saved, a penalty_breakdown that is there stays
DetailsKept(d) ==
    hist[d].exists =>
        /\ hist'[d].exists
        /\ hist[d].details.task_completions \subseteq hist'[d].details.task_completions
        /\ SavesPlan(d) \/ hist'[d].details.planned_tasks = hist[d].details.planned_tasks
        /\ hist[d].details.penalty_breakdown.present =>
              hist'[d].details.penalty_breakdown.present

\* C30: every operation that writes the details of a record keeps the other
\* sub-objects: a completion keeps planned_tasks and penalty_breakdown, saving
\* the plan keeps task_completions, and a finalization on any path, the catch-up
\* of a date that has a record included, keeps task_completions and
\* planned_tasks.
C30_DetailsKept == [][\A d \in Dates : DetailsKept(d)]_vars

=============================================================================
